---- MODULE Spec2Model ----
(***************************************************************************)
(* Model of the gettext catalog parser of Timiz0r/golocalization:          *)
(* ParseLine and CompleteLine (gettext/Line.go), LineValueFromRaw          *)
(* (gettext/LineValue.go), ParseEntry (Entry), ParseDocument with its      *)
(* documentParsingContext (Document), and the plural rules of a header     *)
(* (gettext/PluralRuleParser.go, gettext/PluralRuleSampleValidation.go).   *)
(* Text is a sequence of one-character strings.                            *)
(***************************************************************************)
EXTENDS Integers, Sequences, FiniteSets, TLC

(***************************************************************************)
(* Bounds of the explored inputs.                                          *)
(***************************************************************************)
\* most pieces (BodyFragments) that follow the header in an explored catalog
MaxBody == 4
\* most pieces (FreeFragments) of an explored catalog without that header
MaxFree == 3

(***************************************************************************)
(* Characters.                                                             *)
(***************************************************************************)
\* \s of the regular expressions: [\t\n\f\r ]
WhiteSpaceChars == {" ", "\t", "\n", "\f", "\r"}

Digits == {"0", "1", "2", "3", "4", "5", "6", "7", "8", "9"}

\* the characters that end a keyword: [^\s\["#] is its complement
KeywordStops == WhiteSpaceChars \cup {"[", "\"", "#"}

\* s[from..], Go's s[from-1:]
Drop(s, n) == SubSeq(s, n + 1, Len(s))

\* first position >= i of s whose character is not in set (Len(s)+1 if none)
RECURSIVE SkipWhile(_, _, _)
SkipWhile(s, i, set) ==
  IF i <= Len(s) /\ s[i] \in set THEN SkipWhile(s, i + 1, set) ELSE i

\* first position >= i of s whose character is in set (Len(s)+1 if none)
RECURSIVE SkipUntil(_, _, _)
SkipUntil(s, i, set) ==
  IF i <= Len(s) /\ s[i] \notin set THEN SkipUntil(s, i + 1, set) ELSE i

DigitValue(c) ==
  CASE c = "0" -> 0 [] c = "1" -> 1 [] c = "2" -> 2 [] c = "3" -> 3
    [] c = "4" -> 4 [] c = "5" -> 5 [] c = "6" -> 6 [] c = "7" -> 7
    [] c = "8" -> 8 [] c = "9" -> 9

\* the decimal digits of math.MaxInt64, the largest value strconv.Atoi accepts
MaxInt64Digits ==
  <<"9","2","2","3","3","7","2","0","3","6","8","5","4","7","7","5","8","0","7">>

RECURSIVE DigitsLessEq(_, _)
\* lexicographic <= of two digit strings of equal length
DigitsLessEq(a, b) ==
  IF a = <<>> THEN TRUE
  ELSE IF DigitValue(Head(a)) < DigitValue(Head(b)) THEN TRUE
  ELSE IF DigitValue(Head(a)) > DigitValue(Head(b)) THEN FALSE
  ELSE DigitsLessEq(Tail(a), Tail(b))

\* strconv.Atoi succeeds on a digit string iff its value fits an int64
AtoiOk(d) ==
  LET z == Drop(d, SkipWhile(d, 1, {"0"}) - 1)
  IN  \/ Len(z) < Len(MaxInt64Digits)
      \/ Len(z) = Len(MaxInt64Digits) /\ DigitsLessEq(z, MaxInt64Digits)

RECURSIVE AtoiValue(_, _)
\* the value strconv.Atoi returns (acc is the value of the digits read so far)
AtoiValue(d, acc) ==
  IF d = <<>> THEN acc ELSE AtoiValue(Tail(d), acc * 10 + DigitValue(Head(d)))

(***************************************************************************)
(* gettext/LineValue.go: the escape codec.  A control character that TLA+  *)
(* cannot write is named by its code, "<07>" being the character 0x07.     *)
(***************************************************************************)
OctalDigits == {"0", "1", "2", "3", "4", "5", "6", "7"}

\* [0-9a-f] of rawStringParser: lower-case hexadecimal digits only
HexDigits == Digits \cup {"a", "b", "c", "d", "e", "f"}

HexValue(c) ==
  CASE c \in Digits -> DigitValue(c)
    [] c = "a" -> 10 [] c = "b" -> 11 [] c = "c" -> 12
    [] c = "d" -> 13 [] c = "e" -> 14 [] c = "f" -> 15

\* the characters the codec names, by code
CodeTable ==
  [n \in 0..127 |->
    CASE n = 0 -> "<00>" [] n = 7 -> "<07>" [] n = 8 -> "<08>"
      [] n = 9 -> "\t" [] n = 10 -> "\n" [] n = 11 -> "<0b>"
      [] n = 12 -> "\f" [] n = 13 -> "\r" [] n = 27 -> "<1b>"
      [] n = 34 -> "\"" [] n = 39 -> "'" [] n = 63 -> "?"
      [] n = 92 -> "\\" [] n = 127 -> "<7f>"
      [] OTHER -> ToString(n)]

\* string(rune(r)) after strconv.ParseInt(.., 8): a value over 127 is out of
\* range for bitSize 8 and ParseInt then returns 127 (the error is dropped)
RuneOfInt8(n) == CodeTable[IF n > 127 THEN 127 ELSE n]

\* the replacement of one match "\" + s of rawStringParser with a one-character s
SimpleEscape(c) ==
  CASE c = "a" -> "<07>" [] c = "b" -> "<08>" [] c = "e" -> "<1b>"
    [] c = "f" -> "\f" [] c = "n" -> "\n" [] c = "r" -> "\r"
    [] c = "t" -> "\t" [] c = "v" -> "<0b>" [] c = "\\" -> "\\"
    [] c = "\"" -> "\"" [] c = "'" -> "'" [] c = "?" -> "?"

SimpleEscapes == {"a", "b", "e", "f", "n", "r", "t", "v", "\\", "\"", "'", "?"}

RECURSIVE Unescape(_, _, _)
\* rawStringParser.ReplaceAllStringFunc over raw from position i; out is the
\* text produced so far.  panic: the callback reached its final panic.
Unescape(raw, i, out) ==
  IF i > Len(raw) THEN [panic |-> FALSE, Value |-> out]
  ELSE IF raw[i] = "\\" /\ i < Len(raw) /\ raw[i + 1] # "\n" THEN
    LET c == raw[i + 1] IN
    IF c \in SimpleEscapes THEN
      Unescape(raw, i + 2, Append(out, SimpleEscape(c)))
    ELSE IF /\ c \in OctalDigits /\ i + 3 <= Len(raw)
            /\ raw[i + 2] \in OctalDigits /\ raw[i + 3] \in OctalDigits THEN
      Unescape(raw, i + 4, Append(out,
        RuneOfInt8(DigitValue(c) * 64 + DigitValue(raw[i + 2]) * 8
                   + DigitValue(raw[i + 3]))))
    ELSE IF /\ c = "x" /\ i + 3 <= Len(raw)
            /\ raw[i + 2] \in HexDigits /\ raw[i + 3] \in HexDigits THEN
      Unescape(raw, i + 4, Append(out,
        RuneOfInt8(HexValue(raw[i + 2]) * 16 + HexValue(raw[i + 3]))))
    ELSE IF c = "x" THEN
      \* the catch-all "." matched "x": ParseInt("") fails and leaves 0
      Unescape(raw, i + 2, Append(out, CodeTable[0]))
    ELSE [panic |-> TRUE, Value |-> out]
  ELSE Unescape(raw, i + 1, Append(out, raw[i]))

\* LineValueFromRaw
LineValueFromRaw(raw) ==
  LET u == Unescape(raw, 1, <<>>)
  IN  [panic |-> u.panic, IsEmpty |-> FALSE, Raw |-> raw, Value |-> u.Value]

(***************************************************************************)
(* gettext/Keyword.go and gettext/Line.go: the line parser.                *)
(***************************************************************************)
EmptyKeyword == [IsEmpty |-> TRUE, Keyword |-> <<>>, Index |-> 0, IsIndexed |-> FALSE]

SimpleKeyword(keyword) ==
  [IsEmpty |-> FALSE, Keyword |-> keyword, Index |-> 0, IsIndexed |-> FALSE]

IndexedKeyword(keyword, index) ==
  [IsEmpty |-> FALSE, Keyword |-> keyword, Index |-> index, IsIndexed |-> TRUE]

EmptyLineValue == [IsEmpty |-> TRUE, Raw |-> <<>>, Value |-> <<>>]

EmptyComment == [IsEmpty |-> TRUE, Comment |-> <<>>]

\* Comment{Comment: text}: IsEmpty keeps its zero value
CommentOf(text) == [IsEmpty |-> FALSE, Comment |-> text]

\* The submatches of parseRegex.  Every group of the expression is optional
\* and nothing anchors its end, so the leftmost-first match starts at
\* position 1 and takes each group greedily whenever the group can match.
\* A submatch is <<>> when its group did not take part and <<text>> when it
\* did; next is the position the match has reached.

\* \s*(?<keyword>[^\s\["#]+)
MatchKeyword(line) ==
  LET k1 == SkipWhile(line, 1, WhiteSpaceChars)
      k2 == SkipUntil(line, k1, KeywordStops)
  IN  IF k2 > k1 THEN [text |-> <<SubSeq(line, k1, k2 - 1)>>, next |-> k2]
      ELSE [text |-> <<>>, next |-> 1]

\* \s*(?:\[(?<index>\d+)\])? , tried only after a keyword
MatchIndex(line, kw) ==
  LET x1 == SkipWhile(line, kw.next, WhiteSpaceChars)
      x2 == SkipWhile(line, x1 + 1, Digits)
  IN  IF kw.text = <<>> THEN [text |-> <<>>, next |-> 1]
      ELSE IF /\ x1 <= Len(line) /\ line[x1] = "["
              /\ x2 > x1 + 1
              /\ x2 <= Len(line) /\ line[x2] = "]"
      THEN [text |-> <<SubSeq(line, x1 + 1, x2 - 1)>>, next |-> x2 + 1]
      ELSE [text |-> <<>>, next |-> x1]

\* \s*(?:"(?<value>(?:[^"]|\\")*)")? : the first alternative takes every
\* character but a quote, so the value ends at the first quote after the
\* opening one
MatchValue(line, from) ==
  LET v1 == SkipWhile(line, from, WhiteSpaceChars)
      v2 == SkipUntil(line, v1 + 1, {"\""})
  IN  IF v1 <= Len(line) /\ line[v1] = "\"" /\ v2 <= Len(line)
      THEN [text |-> <<SubSeq(line, v1 + 1, v2 - 1)>>, next |-> v2 + 1]
      ELSE [text |-> <<>>, next |-> v1]

\* \s*(?:#(?<comment>.*))?
MatchComment(line, from) ==
  LET c1 == SkipWhile(line, from, WhiteSpaceChars)
  IN  IF c1 <= Len(line) /\ line[c1] = "#" THEN <<Drop(line, c1)>> ELSE <<>>

MatchesAfterValue(line, kw, ix, v) ==
  [keyword |-> kw.text, index |-> ix.text, value |-> v.text,
   comment |-> MatchComment(line, v.next)]

MatchesAfterIndex(line, kw, ix) ==
  MatchesAfterValue(line, kw, ix, MatchValue(line, ix.next))

MatchesAfterKeyword(line, kw) == MatchesAfterIndex(line, kw, MatchIndex(line, kw))

\* getMatches(parseRegex, line)
getMatches(line) == MatchesAfterKeyword(line, MatchKeyword(line))

\* the zero Line
NoLine ==
  [err |-> "", panic |-> FALSE,
   Keyword |-> EmptyKeyword, Value |-> EmptyLineValue, Comment |-> EmptyComment,
   RawLine |-> <<>>,
   IsCommentOrWhiteSpace |-> FALSE, IsWhiteSpace |-> FALSE,
   IsComment |-> FALSE, IsMarkedObsolete |-> FALSE]

\* Line.populateExtraBools.  panic: line.Comment.Comment[0] of an empty text.
populateExtraBools(line) ==
  LET cw == line.Keyword.IsEmpty /\ line.Value.IsEmpty
      isComment == cw /\ ~line.Comment.IsEmpty
  IN  [line EXCEPT !.IsCommentOrWhiteSpace = cw,
                   !.IsWhiteSpace = cw /\ line.Comment.IsEmpty,
                   !.IsComment = isComment,
                   !.IsMarkedObsolete =
                      isComment /\ line.Comment.Comment # <<>>
                                /\ line.Comment.Comment[1] = "~",
                   !.panic = isComment /\ line.Comment.Comment = <<>>]

\* the Keyword ParseLine makes of the keyword and index submatches
KeywordOfMatches(m) ==
  IF m.keyword = <<>> THEN EmptyKeyword
  ELSE IF m.index # <<>> THEN IndexedKeyword(m.keyword[1], AtoiValue(m.index[1], 0))
  ELSE SimpleKeyword(m.keyword[1])

\* the LineValue ParseLine makes of the value submatch
ValueOfMatches(m) ==
  IF m.value = <<>> THEN [panic |-> FALSE] @@ EmptyLineValue
  ELSE LineValueFromRaw(m.value[1])

\* the Line of ParseLine once the value is unescaped
LineOfMatches(text, m, lv) ==
  IF lv.panic THEN [NoLine EXCEPT !.panic = TRUE]
  ELSE populateExtraBools(
         [NoLine EXCEPT !.Keyword = KeywordOfMatches(m),
                        !.Value = [IsEmpty |-> lv.IsEmpty, Raw |-> lv.Raw,
                                   Value |-> lv.Value],
                        !.Comment = IF m.comment = <<>> THEN EmptyComment
                                    ELSE CommentOf(m.comment[1]),
                        !.RawLine = text])

ParseLineMatches(text, m) ==
  IF m.keyword # <<>> /\ m.index # <<>> /\ ~AtoiOk(m.index[1])
  THEN [NoLine EXCEPT !.err = "LineParseError"]
  ELSE LineOfMatches(text, m, ValueOfMatches(m))

\* ParseLine.  err = "LineParseError" is its error return; panic is an abort.
ParseLine(text) == ParseLineMatches(text, getMatches(text))

\* the keywords ParseDocument and ParseEntry compare with
KwMsgctxt == <<"m", "s", "g", "c", "t", "x", "t">>

KwMsgid == <<"m", "s", "g", "i", "d">>

KwMsgidPlural == <<"m", "s", "g", "i", "d", "_", "p", "l", "u", "r", "a", "l">>

KwMsgstr == <<"m", "s", "g", "s", "t", "r">>

(***************************************************************************)
(* The lines of the explored catalogs.  A line is named by its field in    *)
(* LineTexts; the Line value of a name is ParseLine of its text.           *)
(***************************************************************************)
LineTexts ==
  [
    \* (blank line)
    blank |-> <<>>,
    \* #c
    comment |-> <<"#", "c">>,
    \* msgid ""
    id0 |-> <<"m", "s", "g", "i", "d", " ", "\"", "\"">>,
    \* msgstr "Language: ja\n"
    lang |-> <<"m", "s", "g", "s", "t", "r", " ", "\"", "L", "a", "n", "g", "u", "a", "g", "e", ":", " ", "j", "a", "\\", "n", "\"">>,
    \* msgid_plural "p"
    pluralId |-> <<"m", "s", "g", "i", "d", "_", "p", "l", "u", "r", "a", "l", " ", "\"", "p", "\"">>,
    \* msgstr[0] "q"
    plural0 |-> <<"m", "s", "g", "s", "t", "r", "[", "0", "]", " ", "\"", "q", "\"">>,
    \* msgstr[1] "r"
    plural1 |-> <<"m", "s", "g", "s", "t", "r", "[", "1", "]", " ", "\"", "r", "\"">>,
    \* msgstr[2] "s"
    plural2 |-> <<"m", "s", "g", "s", "t", "r", "[", "2", "]", " ", "\"", "s", "\"">>,
    \* msgid "a"
    idA |-> <<"m", "s", "g", "i", "d", " ", "\"", "a", "\"">>,
    \* msgid "b"
    idB |-> <<"m", "s", "g", "i", "d", " ", "\"", "b", "\"">>,
    \* msgctxt "x"
    ctxX |-> <<"m", "s", "g", "c", "t", "x", "t", " ", "\"", "x", "\"">>,
    \* msgctxt "y"
    ctxY |-> <<"m", "s", "g", "c", "t", "x", "t", " ", "\"", "y", "\"">>,
    \* msgstr "v"
    str |-> <<"m", "s", "g", "s", "t", "r", " ", "\"", "v", "\"">>,
    \* "w"
    cont |-> <<"\"", "w", "\"">>,
    \* msgfoo "u"
    other |-> <<"m", "s", "g", "f", "o", "o", " ", "\"", "u", "\"">>,
    \* #~ msgid "a"
    obsId |-> <<"#", "~", " ", "m", "s", "g", "i", "d", " ", "\"", "a", "\"">>,
    \* #~ msgstr "v"
    obsStr |-> <<"#", "~", " ", "m", "s", "g", "s", "t", "r", " ", "\"", "v", "\"">>,
    \* #
    hash |-> <<"#">>,
    \* #~
    obsEmpty |-> <<"#", "~">>,
    \* msgstr "\q"
    badEsc |-> <<"m", "s", "g", "s", "t", "r", " ", "\"", "\\", "q", "\"">>,
    \* k[99999999999999999999]
    bad |-> <<"k", "[", "9", "9", "9", "9", "9", "9", "9", "9", "9", "9", "9", "9", "9", "9", "9", "9", "9", "9", "9", "9", "]">>,
    \* #~ k[99999999999999999999]
    obsBad |-> <<"#", "~", " ", "k", "[", "9", "9", "9", "9", "9", "9", "9", "9", "9", "9", "9", "9", "9", "9", "9", "9", "9", "9", "9", "9", "]">>
  ]

LineNames == DOMAIN LineTexts

\* ParseLine of every explored line, as the scan loop of ParseDocument computes it
ParsedLines == [n \in LineNames |-> ParseLine(LineTexts[n])]

LineOf(n) == ParsedLines[n]

(***************************************************************************)
(* Entry: ParseEntry.                                                      *)
(***************************************************************************)
\* Entry{}: the zero Entry
NoEntry ==
  [IsObsolete |-> FALSE, IsContextual |-> FALSE, Context |-> <<>>,
   Id |-> <<>>, Value |-> <<>>, PluralId |-> <<>>, PluralValues |-> <<>>,
   Lines |-> <<>>]

\* Whether the entry is contextual.  The field and the statement that sets
\* it are not part of the available Entry source; CreateHeaderFromEntry and
\* the tests read it.  It is set where the keyword switch selects the
\* context accumulator.
MarksContextual(keyword) == keyword = KwMsgctxt

\* The key FinishCurrentEntry looks up.  Its type is not part of the
\* available Entry source: the (context, id) pair of the entry, the context
\* being optional.
EntryKey(entry) ==
  [IsContextual |-> entry.IsContextual, Context |-> entry.Context, Id |-> entry.Id]

\* the locals of ParseEntry before its loop; currentValue names the builder
\* the pointer refers to ("nil" for the nil pointer)
ParseEntryLocals ==
  [err |-> "", panic |-> FALSE,
   IsObsolete |-> FALSE, IsContextual |-> FALSE,
   context |-> <<>>, id |-> <<>>, value |-> <<>>, pluralId |-> <<>>,
   pluralValues |-> <<>>,
   maxPluralIndex |-> 0,
   currentValue |-> [builder |-> "nil", index |-> 0],
   nonObsoleteLinesFound |-> FALSE,
   shouldBePlural |-> FALSE,
   unsupportedKeywords |-> <<>>]

\* currentValue.Len()
BuilderLen(st) ==
  LET cv == st.currentValue IN
  CASE cv.builder = "context" -> Len(st.context)
    [] cv.builder = "id" -> Len(st.id)
    [] cv.builder = "pluralId" -> Len(st.pluralId)
    [] cv.builder = "value" -> Len(st.value)
    [] cv.builder = "plural" -> Len(st.pluralValues[cv.index])

\* currentValue.WriteString(text)
WriteString(st, text) ==
  LET cv == st.currentValue IN
  CASE cv.builder = "context" -> [st EXCEPT !.context = @ \o text]
    [] cv.builder = "id" -> [st EXCEPT !.id = @ \o text]
    [] cv.builder = "pluralId" -> [st EXCEPT !.pluralId = @ \o text]
    [] cv.builder = "value" -> [st EXCEPT !.value = @ \o text]
    [] cv.builder = "plural" -> [st EXCEPT !.pluralValues[cv.index] = @ \o text]

Stopped(st) == st.err # "" \/ st.panic

\* the outcome of the obsolete branch for the line ParseLine made of the text
\* after the marker
ParseEntryRelexed(st, inner) ==
  IF inner.panic THEN [st EXCEPT !.panic = TRUE]
  ELSE IF inner.err # "" THEN [st EXCEPT !.err = "EntryLineParseError"]
  ELSE [st EXCEPT !.IsObsolete = TRUE]

\* The obsolete branch at the head of the loop body.  The line it parses is
\* declared inside the branch, so the statements after the branch still read
\* the loop's own line.
ParseEntryObsolete(st, line) ==
  IF line.IsMarkedObsolete THEN
    IF Len(line.Comment.Comment) < 2 THEN [st EXCEPT !.panic = TRUE]
    ELSE ParseEntryRelexed(st, ParseLine(Drop(line.Comment.Comment, 2)))
  ELSE [st EXCEPT !.nonObsoleteLinesFound = TRUE]

\* ParseEntryIndexed without the duplicate check: the builder of a repeated
\* index is replaced
ParseEntryIndexedOverwriting(st, idx) ==
  [st EXCEPT !.maxPluralIndex = IF idx > @ THEN idx ELSE @,
             !.currentValue = [builder |-> "plural", index |-> idx],
             !.pluralValues = (idx :> <<>>) @@ @]

\* an indexed keyword: a new builder for its index, or the duplicate error
ParseEntryIndexed(st, idx) ==
  IF idx \in DOMAIN st.pluralValues
  THEN [st EXCEPT !.maxPluralIndex = IF idx > @ THEN idx ELSE @,
                  !.err = "EntryLineParseError"]
  ELSE [st EXCEPT !.maxPluralIndex = IF idx > @ THEN idx ELSE @,
                  !.currentValue = [builder |-> "plural", index |-> idx],
                  !.pluralValues = (idx :> <<>>) @@ @]

\* the switch over a keyword without index
ParseEntrySwitch(st, kw) ==
  CASE kw = KwMsgctxt ->
         [st EXCEPT !.currentValue = [builder |-> "context", index |-> 0],
                    !.IsContextual = @ \/ MarksContextual(kw)]
    [] kw = KwMsgid ->
         [st EXCEPT !.currentValue = [builder |-> "id", index |-> 0]]
    [] kw = KwMsgidPlural ->
         [st EXCEPT !.currentValue = [builder |-> "pluralId", index |-> 0],
                    !.shouldBePlural = TRUE]
    [] kw = KwMsgstr ->
         [st EXCEPT !.currentValue = [builder |-> "value", index |-> 0]]
    [] OTHER ->
         [st EXCEPT !.unsupportedKeywords = Append(@, kw)]

\* if currentValue.Len() != 0, after the switch
ParseEntryRepeated(st) ==
  IF st.currentValue.builder = "nil" THEN [st EXCEPT !.panic = TRUE]
  ELSE IF BuilderLen(st) # 0 THEN [st EXCEPT !.err = "EntryLineParseError"]
  ELSE st

\* the keyword part of the loop body
ParseEntryKeyword(st, line) ==
  IF Stopped(st) \/ line.Keyword.IsEmpty THEN st
  ELSE IF line.Keyword.IsIndexed THEN ParseEntryIndexed(st, line.Keyword.Index)
  ELSE ParseEntryRepeated(ParseEntrySwitch(st, line.Keyword.Keyword))

\* the value part of the loop body skipping a value that has no builder
ParseEntryValueSkippingUnowned(st, line) ==
  IF Stopped(st) \/ line.Value.IsEmpty THEN st
  ELSE IF st.currentValue.builder = "nil" THEN st
  ELSE WriteString(st, line.Value.Value)

\* the value part of the loop body writing only the value of a keyword line
ParseEntryValueOfKeywordLines(st, line) ==
  IF Stopped(st) \/ line.Value.IsEmpty THEN st
  ELSE IF st.currentValue.builder = "nil" THEN [st EXCEPT !.err = "EntryLineParseError"]
  ELSE IF line.Keyword.IsEmpty THEN st
  ELSE WriteString(st, line.Value.Value)

\* the value part of the loop body
ParseEntryValue(st, line) ==
  IF Stopped(st) \/ line.Value.IsEmpty THEN st
  ELSE IF st.currentValue.builder = "nil" THEN [st EXCEPT !.err = "EntryLineParseError"]
  ELSE WriteString(st, line.Value.Value)

\* one iteration of the loop of ParseEntry
ParseEntryLine(st, line) ==
  ParseEntryValue(ParseEntryKeyword(ParseEntryObsolete(st, line), line), line)

RECURSIVE ParseEntryLoop(_, _, _)
\* the loop of ParseEntry over lines[i..]
ParseEntryLoop(st, lines, i) ==
  IF i > Len(lines) \/ Stopped(st) THEN st
  ELSE ParseEntryLoop(ParseEntryLine(st, LineOf(lines[i])), lines, i + 1)

\* len(pluralValues)
PluralCount(st) == Cardinality(DOMAIN st.pluralValues)

\* ParseEntryChecks without the check of obsolete next to other lines
ParseEntryChecksAllowingMixed(st) ==
  IF PluralCount(st) # st.maxPluralIndex + 1 THEN "EntryParseError"
  ELSE IF st.shouldBePlural /\ PluralCount(st) = 0 THEN "EntryParseError"
  ELSE IF PluralCount(st) > 0 /\ ~st.shouldBePlural THEN "EntryParseError"
  ELSE IF Len(st.unsupportedKeywords) > 0 THEN "EntryParseError"
  ELSE ""

\* ParseEntryChecks without the check that plural values come with a plural id
ParseEntryChecksPluralsAlone(st) ==
  IF st.IsObsolete /\ st.nonObsoleteLinesFound THEN "EntryParseError"
  ELSE IF PluralCount(st) # st.maxPluralIndex + 1 THEN "EntryParseError"
  ELSE IF st.shouldBePlural /\ PluralCount(st) = 0 THEN "EntryParseError"
  ELSE IF Len(st.unsupportedKeywords) > 0 THEN "EntryParseError"
  ELSE ""

\* the checks of ParseEntry after its loop, in their order ("" when all pass)
ParseEntryChecks(st) ==
  IF st.IsObsolete /\ st.nonObsoleteLinesFound THEN "EntryParseError"
  ELSE IF PluralCount(st) # st.maxPluralIndex + 1 THEN "EntryParseError"
  ELSE IF st.shouldBePlural /\ PluralCount(st) = 0 THEN "EntryParseError"
  ELSE IF PluralCount(st) > 0 /\ ~st.shouldBePlural THEN "EntryParseError"
  ELSE IF Len(st.unsupportedKeywords) > 0 THEN "EntryParseError"
  ELSE ""

\* EntryOfLocals with the plural values copied from the highest index down
EntryOfLocalsReversed(st, lines) ==
  [IsObsolete |-> st.IsObsolete,
   IsContextual |-> st.IsContextual,
   Context |-> st.context,
   Id |-> st.id,
   Value |-> st.value,
   PluralId |-> st.pluralId,
   PluralValues |-> [k \in 1..PluralCount(st) |-> st.pluralValues[PluralCount(st) - k]],
   Lines |-> lines]

\* the Entry ParseEntry assembles from its locals
EntryOfLocals(st, lines) ==
  [IsObsolete |-> st.IsObsolete,
   IsContextual |-> st.IsContextual,
   Context |-> st.context,
   Id |-> st.id,
   Value |-> st.value,
   PluralId |-> st.pluralId,
   PluralValues |-> [k \in 1..PluralCount(st) |-> st.pluralValues[k - 1]],
   Lines |-> lines]

\* what ParseEntry returns for the locals its loop ended with
ParseEntryResult(st, lines) ==
  IF st.panic THEN [err |-> "", panic |-> TRUE, entry |-> NoEntry]
  ELSE IF st.err # "" THEN [err |-> st.err, panic |-> FALSE, entry |-> NoEntry]
  ELSE IF ParseEntryChecks(st) # ""
  THEN [err |-> ParseEntryChecks(st), panic |-> FALSE, entry |-> NoEntry]
  ELSE [err |-> "", panic |-> FALSE, entry |-> EntryOfLocals(st, lines)]

\* ParseEntry: err is "" and entry the parsed Entry, or err names the error
\* type and entry is Entry{}; panic is an abort
ParseEntry(lines) == ParseEntryResult(ParseEntryLoop(ParseEntryLocals, lines, 1), lines)

(***************************************************************************)
(* DocumentHeader: CreateHeaderFromEntry.                                  *)
(***************************************************************************)
UpperLetters == <<"A", "B", "C", "D", "E", "F", "G", "H", "I", "J", "K", "L", "M", "N", "O", "P", "Q", "R", "S", "T", "U", "V", "W", "X", "Y", "Z">>

LowerLetters == <<"a", "b", "c", "d", "e", "f", "g", "h", "i", "j", "k", "l", "m", "n", "o", "p", "q", "r", "s", "t", "u", "v", "w", "x", "y", "z">>

\* case folding of (?i), over the ASCII letters
ToLower(c) ==
  IF \E k \in 1..26 : UpperLetters[k] = c
  THEN LowerLetters[CHOOSE k \in 1..26 : UpperLetters[k] = c]
  ELSE c

Letters == {UpperLetters[k] : k \in 1..26} \cup {LowerLetters[k] : k \in 1..26}

\* "Language: " of languageExtractor
LanguageField == <<"L", "a", "n", "g", "u", "a", "g", "e", ":", " ">>

\* text has pattern at position i, ignoring case
MatchesAt(text, i, pattern) ==
  /\ i + Len(pattern) - 1 <= Len(text)
  /\ \A k \in 1..Len(pattern) : ToLower(text[i + k - 1]) = ToLower(pattern[k])

\* languageExtractor, (?im)^Language: (.+)$ : the positions where a line of
\* value starts with the field name and at least one more character follows
LanguageStarts(value) ==
  {i \in 1..Len(value) :
     /\ i = 1 \/ value[i - 1] = "\n"
     /\ MatchesAt(value, i, LanguageField)
     /\ i + Len(LanguageField) <= Len(value)
     /\ value[i + Len(LanguageField)] # "\n"}

\* matches[1] of languageExtractor: the rest of the first such line
RawLanguageValue(value) ==
  LET i == CHOOSE j \in LanguageStarts(value) : \A k \in LanguageStarts(value) : j <= k
      from == i + Len(LanguageField)
  IN  SubSeq(value, from, SkipUntil(value, from, {"\n"}) - 1)

\* getTextVariantMap
getTextVariantMap ==
  (<<"l", "a", "t", "i", "n">> :> <<"L", "a", "t", "n">>) @@
  (<<"c", "y", "r", "i", "l", "l", "i", "c">> :> <<"C", "y", "r", "l">>) @@
  (<<"a", "d", "l", "a", "m">> :> <<"A", "d", "l", "m">>) @@
  (<<"j", "a", "v", "a", "n", "e", "s", "e">> :> <<"J", "a", "v", "a">>) @@
  (<<"a", "r", "a", "b", "i", "c">> :> <<"A", "r", "a", "b">>) @@
  (<<"d", "e", "v", "a", "n", "a", "g", "a", "r", "i">> :> <<"D", "e", "v", "a">>) @@
  (<<"m", "o", "n", "g", "o", "l", "i", "a", "n">> :> <<"M", "o", "n", "g">>) @@
  (<<"b", "a", "n", "g", "l", "a">> :> <<"B", "e", "n", "g">>) @@
  (<<"g", "u", "r", "m", "u", "k", "h", "i">> :> <<"G", "u", "r", "u">>) @@
  (<<"o", "l", "c", "h", "i", "k", "i">> :> <<"O", "l", "c", "k">>) @@
  (<<"t", "i", "f", "i", "n", "a", "g", "h">> :> <<"T", "f", "n", "g">>) @@
  (<<"v", "a", "i">> :> <<"V", "a", "i", "i">>) @@
  (<<"s", "i", "m", "p", "l", "i", "f", "i", "e", "d">> :> <<"H", "a", "n", "s">>) @@
  (<<"t", "r", "a", "d", "i", "t", "i", "o", "n", "a", "l">> :> <<"H", "a", "n", "t">>)

\* languageParser, (?i)([a-z]+)(?:_([a-z]+))?(?:@([a-z]+))? : the submatches of
\* its leftmost match in raw (found: there is a match)
languageParser(raw) ==
  LET a1 == SkipUntil(raw, 1, Letters)
      a2 == SkipWhile(raw, a1, Letters)
      b2 == SkipWhile(raw, a2 + 1, Letters)
      hasCountry == a2 <= Len(raw) /\ raw[a2] = "_" /\ b2 > a2 + 1
      c1 == IF hasCountry THEN b2 ELSE a2
      c2 == SkipWhile(raw, c1 + 1, Letters)
      hasVariant == c1 <= Len(raw) /\ raw[c1] = "@" /\ c2 > c1 + 1
  IN  [found |-> a1 <= Len(raw),
       language |-> SubSeq(raw, a1, a2 - 1),
       country |-> IF hasCountry THEN SubSeq(raw, a2 + 1, b2 - 1) ELSE <<>>,
       variant |-> IF hasVariant THEN SubSeq(raw, c1 + 1, c2 - 1) ELSE <<>>]

\* the zero DocumentHeader
NoHeader == [Tag |-> <<>>]

\* the text CreateHeaderFromEntry hands to language.Make
LanguageValue(m) ==
  (IF m.variant # <<>> THEN m.language \o <<"-">> \o getTextVariantMap[m.variant]
   ELSE m.language)
  \o (IF m.country # <<>> THEN <<"-">> \o m.country ELSE <<>>)

HeaderOfLanguage(raw, m) ==
  IF ~m.found THEN [err |-> "", header |-> [Tag |-> raw]]
  ELSE IF m.variant # <<>> /\ m.variant \notin DOMAIN getTextVariantMap
  THEN [err |-> "DocumentHeaderParseError", header |-> NoHeader]
  ELSE [err |-> "", header |-> [Tag |-> LanguageValue(m)]]

HeaderOfRawLanguage(raw) == HeaderOfLanguage(raw, languageParser(raw))

\* CreateHeaderFromEntry, for an entry whose value declares no
\* X-PluralRules field.  Tag is the text handed to language.Make.
CreateHeaderFromEntry(entry) ==
  IF entry.IsContextual THEN [err |-> "DocumentHeaderParseError", header |-> NoHeader]
  ELSE IF LanguageStarts(entry.Value) = {}
  THEN [err |-> "DocumentHeaderParseError", header |-> NoHeader]
  ELSE HeaderOfRawLanguage(RawLanguageValue(entry.Value))

(***************************************************************************)
(* Document: CreateDocument and the documentParsingContext.                *)
(***************************************************************************)
\* Document{}
NoDocument == [Header |-> NoHeader, Entries |-> <<>>]

DocumentOfHeader(h, entries) ==
  IF h.err # "" THEN [err |-> h.err, doc |-> NoDocument]
  ELSE [err |-> "", doc |-> [Header |-> h.header, Entries |-> entries]]

\* CreateDocument without the check of the first entry's id
CreateDocumentAnyId(entries) ==
  IF Len(entries) = 0
  THEN [err |-> "DocumentMissingHeaderError", doc |-> NoDocument]
  ELSE DocumentOfHeader(CreateHeaderFromEntry(entries[1]), entries)

\* CreateDocument
CreateDocument(entries) ==
  IF Len(entries) = 0
  THEN [err |-> "DocumentMissingHeaderError", doc |-> NoDocument]
  ELSE IF Len(entries[1].Id) > 0
  THEN [err |-> "DocumentMissingHeaderError", doc |-> NoDocument]
  ELSE DocumentOfHeader(CreateHeaderFromEntry(entries[1]), entries)

\* var ctx documentParsingContext
NewContext ==
  [Entries |-> <<>>, FoundEntries |-> {},
   HaveHeader |-> FALSE, ProcessingContextualEntry |-> FALSE,
   currentEntryLines |-> <<>>, currentCommentBlock |-> <<>>]

\* documentParsingContext.AddComment
AddComment(c, l) == [c EXCEPT !.currentCommentBlock = Append(@, l)]

\* documentParsingContext.PushComments
PushComments(c) ==
  [c EXCEPT !.currentEntryLines = @ \o c.currentCommentBlock,
            !.currentCommentBlock = <<>>]

\* documentParsingContext.PushLine
PushLine(c, l) == [c EXCEPT !.currentEntryLines = Append(@, l)]

\* FinishCurrentEntry without the lookup of the key in FoundEntries
FinishParsedEntryAnyKey(c, p) ==
  IF p.panic THEN [err |-> "", panic |-> TRUE, foundWhitespace |-> FALSE, ctx |-> c]
  ELSE IF p.err # ""
  THEN [err |-> p.err, panic |-> FALSE, foundWhitespace |-> FALSE, ctx |-> c]
  ELSE [err |-> "", panic |-> FALSE, foundWhitespace |-> FALSE,
        ctx |-> [c EXCEPT !.FoundEntries = @ \cup {EntryKey(p.entry)},
                          !.currentEntryLines = <<>>,
                          !.Entries = Append(@, p.entry)]]

\* FinishCurrentEntry appending the finished entry a second time
FinishParsedEntryTwice(c, p) ==
  IF p.panic THEN [err |-> "", panic |-> TRUE, foundWhitespace |-> FALSE, ctx |-> c]
  ELSE IF p.err # ""
  THEN [err |-> p.err, panic |-> FALSE, foundWhitespace |-> FALSE, ctx |-> c]
  ELSE IF EntryKey(p.entry) \in c.FoundEntries
  THEN [err |-> "DocumentParseError", panic |-> FALSE, foundWhitespace |-> FALSE,
        ctx |-> c]
  ELSE [err |-> "", panic |-> FALSE, foundWhitespace |-> FALSE,
        ctx |-> [c EXCEPT !.FoundEntries = @ \cup {EntryKey(p.entry)},
                          !.currentEntryLines = <<>>,
                          !.Entries = IF @ = <<>> THEN Append(@, p.entry)
                                      ELSE Append(Append(@, p.entry), p.entry)]]

\* FinishCurrentEntry once ParseEntry has returned p
FinishParsedEntry(c, p) ==
  IF p.panic THEN [err |-> "", panic |-> TRUE, foundWhitespace |-> FALSE, ctx |-> c]
  ELSE IF p.err # ""
  THEN [err |-> p.err, panic |-> FALSE, foundWhitespace |-> FALSE, ctx |-> c]
  ELSE IF EntryKey(p.entry) \in c.FoundEntries
  THEN [err |-> "DocumentParseError", panic |-> FALSE, foundWhitespace |-> FALSE,
        ctx |-> c]
  ELSE [err |-> "", panic |-> FALSE, foundWhitespace |-> FALSE,
        ctx |-> [c EXCEPT !.FoundEntries = @ \cup {EntryKey(p.entry)},
                          !.currentEntryLines = <<>>,
                          !.Entries = Append(@, p.entry)]]

\* documentParsingContext.FinishCurrentEntry: err is "" and ctx the context
\* afterwards, or err names the returned error (foundWhitespace belongs to
\* StartNextEntry, which passes the same record on)
FinishCurrentEntry(c) == FinishParsedEntry(c, ParseEntry(c.currentEntryLines))

\* the first whitespace line of the pending block, after FinishCurrentEntry
\* returned f: the line starts the now current entry
StartNextEntrySplit(f, l) ==
  IF f.err # "" \/ f.panic THEN [f EXCEPT !.foundWhitespace = TRUE]
  ELSE [f EXCEPT !.foundWhitespace = TRUE,
                 !.ctx.currentEntryLines = Append(@, l)]

\* the body of the loop with the first whitespace line appended before
\* FinishCurrentEntry is called
StartNextEntryLineAppendFirst(r, l) ==
  IF ~r.foundWhitespace /\ LineOf(l).IsWhiteSpace
  THEN [FinishCurrentEntry(PushLine(r.ctx, l)) EXCEPT !.foundWhitespace = TRUE]
  ELSE [r EXCEPT !.ctx.currentEntryLines = Append(@, l)]

\* the body of the loop of StartNextEntry for the pending line l
StartNextEntryLine(r, l) ==
  IF ~r.foundWhitespace /\ LineOf(l).IsWhiteSpace
  THEN StartNextEntrySplit(FinishCurrentEntry(r.ctx), l)
  ELSE [r EXCEPT !.ctx.currentEntryLines = Append(@, l)]

RECURSIVE StartNextEntryLoop(_, _, _)
\* the loop of StartNextEntry over the pending block from position i
StartNextEntryLoop(r, block, i) ==
  IF i > Len(block) \/ r.err # "" \/ r.panic THEN r
  ELSE StartNextEntryLoop(StartNextEntryLine(r, block[i]), block, i + 1)

\* StartNextEntry after its loop
StartNextEntryEnd(r) ==
  IF r.err # "" \/ r.panic THEN r
  ELSE IF ~r.foundWhitespace
  THEN FinishCurrentEntry([r.ctx EXCEPT !.currentCommentBlock = <<>>])
  ELSE [r EXCEPT !.ctx.currentCommentBlock = <<>>]

\* StartNextEntry finishing the current entry before it looks at the pending
\* block, which then leads the next entry
StartNextEntryFinishFirst(c) ==
  LET f == FinishCurrentEntry([c EXCEPT !.currentCommentBlock = <<>>]) IN
  IF f.err # "" \/ f.panic THEN f
  ELSE [f EXCEPT !.ctx.currentEntryLines = c.currentCommentBlock]

\* documentParsingContext.StartNextEntry
StartNextEntry(c) ==
  StartNextEntryEnd(
    StartNextEntryLoop(
      [err |-> "", panic |-> FALSE, foundWhitespace |-> FALSE, ctx |-> c],
      c.currentCommentBlock, 1))

(***************************************************************************)
(* The explored catalogs.                                                  *)
(***************************************************************************)
\* a header entry ParseEntry accepts, with the Language field
PluralHeader == <<"id0", "lang", "pluralId", "plural0">>

\* the header of the repository's tests
TestHeader == <<"id0", "lang">>

\* the two lines that make an entry a plural entry
PluralLines == <<"pluralId", "plural0">>

\* the pieces a catalog body is made of
BodyFragments ==
  {<<"blank">>, <<"comment">>, <<"id0">>, <<"idA">>, <<"ctxX">>, <<"str">>,
   <<"cont">>, <<"obsId">>, <<"obsStr">>, PluralLines}

\* the pieces of a catalog that need not start with a header
FreeFragments ==
  {<<n>> : n \in LineNames \ {"other", "bad", "hash", "obsEmpty", "badEsc"}} \cup {PluralLines, <<"lang">> \o PluralLines}

RECURSIVE Flatten(_)
Flatten(ss) == IF ss = <<>> THEN <<>> ELSE Head(ss) \o Flatten(Tail(ss))

SeqsUpTo(S, n) == UNION {[1..k -> S] : k \in 0..n}

HeaderedInputs == {PluralHeader \o Flatten(b) : b \in SeqsUpTo(BodyFragments, MaxBody)}

FreeInputs == {Flatten(b) : b \in SeqsUpTo(FreeFragments, MaxFree)}

\* the keyword lines that open an entry: an optional msgctxt and a msgid
EntryOpenings ==
  {<<"idA">>, <<"idB">>, <<"ctxX", "idA">>, <<"ctxX", "idB">>,
   <<"ctxY", "idA">>, <<"ctxY", "idB">>}

\* catalogs of a header and two entries, each entry closed by its msgstr or
\* by the plural lines
TwoEntryInputs ==
  {h \o o1 \o c1 \o o2 \o c2 :
     h \in {PluralHeader, TestHeader},
     o1 \in EntryOpenings, o2 \in EntryOpenings,
     c1 \in {<<"str">>, PluralLines}, c2 \in {<<"str">>, PluralLines}}

Inputs == HeaderedInputs \cup FreeInputs \cup TwoEntryInputs

(***************************************************************************)
(* ParseDocument as a state machine: the scan loop, one step per iteration *)
(* of the organising loop, and the end of input.                           *)
(***************************************************************************)
\* The specifications of ParseEntry, parsePluralRule and the plural rules of
\* a header below use the same variables: input is what the operation is
\* given (lines for ParseEntry), pc where the call stands, pos the number an
\* operation is called on and result what was returned.
VARIABLES
  input,    \* the lines the reader holds, by name
  pc,       \* "scan", "organize" or "done"
  lines,    \* the lines the scan loop produced
  pos,      \* the position of the organising loop in lines
  ctx,      \* the documentParsingContext
  result    \* what ParseDocument returned, once pc = "done"

vars == <<input, pc, lines, pos, ctx, result>>

NoResult == [err |-> "", panic |-> FALSE, doc |-> NoDocument]

\* return Document{}, err
Failure(err) == [err |-> err, panic |-> FALSE, doc |-> NoDocument]

\* the call never returns
Abort == [err |-> "", panic |-> TRUE, doc |-> NoDocument]

Init ==
  /\ input \in Inputs
  /\ pc = "scan"
  /\ lines = <<>>
  /\ pos = 1
  /\ ctx = NewContext
  /\ result = NoResult

\* the scan loop reporting the last line that fails instead of the first
ScanLinesReportingLast ==
  /\ pc = "scan"
  /\ LET bad == {i \in 1..Len(input) : LineOf(input[i]).err # "" \/ LineOf(input[i]).panic}
         last == CHOOSE i \in bad : \A j \in bad : j <= i
     IN  IF bad = {}
         THEN /\ lines' = input
              /\ pc' = "organize"
              /\ result' = result
         ELSE /\ lines' = SubSeq(input, 1, last - 1)
              /\ pc' = "done"
              /\ result' = IF LineOf(input[last]).panic THEN Abort
                           ELSE Failure("DocumentLineParseError")
  /\ UNCHANGED <<input, pos, ctx>>

\* the scan loop: ParseLine of every line, stopping at the first failure
ScanLines ==
  /\ pc = "scan"
  /\ LET bad == {i \in 1..Len(input) : LineOf(input[i]).err # "" \/ LineOf(input[i]).panic}
         first == CHOOSE i \in bad : \A j \in bad : i <= j
     IN  IF bad = {}
         THEN /\ lines' = input
              /\ pc' = "organize"
              /\ result' = result
         ELSE /\ lines' = SubSeq(input, 1, first - 1)
              /\ pc' = "done"
              /\ result' = IF LineOf(input[first]).panic THEN Abort
                           ELSE Failure("DocumentLineParseError")
  /\ UNCHANGED <<input, pos, ctx>>

\* lineToInspect of a line: the line itself, or what ParseLine makes of the
\* text after the obsolete marker
Inspect(n) ==
  LET actual == LineOf(n) IN
  IF ~actual.IsMarkedObsolete THEN actual
  ELSE IF Len(actual.Comment.Comment) < 2 THEN [NoLine EXCEPT !.panic = TRUE]
  ELSE ParseLine(Drop(actual.Comment.Comment, 2))

Inspected == [n \in LineNames |-> Inspect(n)]

InLoop == pc = "organize" /\ pos <= Len(lines)

actualLine == LineOf(lines[pos])

lineToInspect == Inspected[lines[pos]]

\* the line passed the re-parse and is a string or a keyworded line
IsContentLine ==
  /\ InLoop
  /\ lineToInspect.err = "" /\ ~lineToInspect.panic
  /\ ~lineToInspect.IsCommentOrWhiteSpace

\* the condition of the two header checks
IsHeaderCase ==
  /\ ~ctx.HaveHeader
  /\ actualLine.Keyword.Keyword \in {KwMsgctxt, KwMsgid}

\* return Document{}, err (or the abort of the call)
Return(r) ==
  /\ pc' = "done"
  /\ result' = r
  /\ UNCHANGED <<input, lines, pos, ctx>>

\* the iteration ends with the context c
Continue(c) ==
  /\ ctx' = c
  /\ pos' = pos + 1
  /\ UNCHANGED <<input, pc, lines, result>>

\* the obsolete line does not parse once its marker is stripped
OrganizeObsoleteFailure ==
  /\ InLoop
  /\ lineToInspect.err # "" \/ lineToInspect.panic
  /\ Return(IF lineToInspect.panic THEN Abort ELSE Failure("DocumentParseError"))

\* a comment or whitespace line joins the pending block
OrganizeComment ==
  /\ InLoop
  /\ lineToInspect.err = "" /\ ~lineToInspect.panic
  /\ lineToInspect.IsCommentOrWhiteSpace
  /\ Continue(AddComment(ctx, lines[pos]))

\* the header checks without the check of the msgid's value
OrganizeHeaderAnyId ==
  /\ IsContentLine
  /\ IsHeaderCase
  /\ IF actualLine.Keyword.Keyword = KwMsgctxt THEN Return(Failure("DocumentParseError"))
     ELSE Continue(PushLine(PushComments([ctx EXCEPT !.HaveHeader = TRUE]), lines[pos]))

\* before the header: msgctxt and a msgid with a value are errors, a msgid
\* without one establishes the header
OrganizeHeader ==
  /\ IsContentLine
  /\ IsHeaderCase
  /\ IF actualLine.Keyword.Keyword = KwMsgctxt THEN Return(Failure("DocumentParseError"))
     ELSE IF Len(actualLine.Value.Raw) > 0 THEN Return(Failure("DocumentParseError"))
     ELSE Continue(PushLine(PushComments([ctx EXCEPT !.HaveHeader = TRUE]), lines[pos]))

\* the rest of a msgctxt or msgid iteration after StartNextEntry returned s:
\* its error is returned, or the flag is set and the line pushed
AfterStartNextEntry(s, contextual) ==
  IF s.panic THEN Return(Abort)
  ELSE IF s.err # "" THEN Return(Failure(s.err))
  ELSE Continue(PushLine([s.ctx EXCEPT !.ProcessingContextualEntry = contextual],
                         lines[pos]))

\* case "msgctxt" without the check of ProcessingContextualEntry
OrganizeMsgctxtUnchecked ==
  /\ IsContentLine
  /\ ~IsHeaderCase
  /\ lineToInspect.Keyword.Keyword = KwMsgctxt
  /\ AfterStartNextEntry(StartNextEntry(ctx), TRUE)

\* case "msgctxt"
OrganizeMsgctxt ==
  /\ IsContentLine
  /\ ~IsHeaderCase
  /\ lineToInspect.Keyword.Keyword = KwMsgctxt
  /\ IF ctx.ProcessingContextualEntry THEN Return(Failure("DocumentParseError"))
     ELSE AfterStartNextEntry(StartNextEntry(ctx), TRUE)

\* case "msgid" without the check of ProcessingContextualEntry
OrganizeMsgidAlwaysStarting ==
  /\ IsContentLine
  /\ ~IsHeaderCase
  /\ lineToInspect.Keyword.Keyword = KwMsgid
  /\ AfterStartNextEntry(StartNextEntry(ctx), FALSE)

\* case "msgid"
OrganizeMsgid ==
  /\ IsContentLine
  /\ ~IsHeaderCase
  /\ lineToInspect.Keyword.Keyword = KwMsgid
  /\ IF ~ctx.ProcessingContextualEntry
     THEN AfterStartNextEntry(StartNextEntry(ctx), FALSE)
     ELSE Continue(PushLine([ctx EXCEPT !.ProcessingContextualEntry = FALSE],
                            lines[pos]))

\* default splitting the entry at the pending block as case "msgid" does
OrganizeOtherSplitting ==
  /\ IsContentLine
  /\ ~IsHeaderCase
  /\ lineToInspect.Keyword.Keyword \notin {KwMsgctxt, KwMsgid}
  /\ AfterStartNextEntry(StartNextEntry(ctx), ctx.ProcessingContextualEntry)

\* default: string lines and the other keyworded lines
OrganizeOther ==
  /\ IsContentLine
  /\ ~IsHeaderCase
  /\ lineToInspect.Keyword.Keyword \notin {KwMsgctxt, KwMsgid}
  /\ Continue(PushLine(PushComments(ctx), lines[pos]))

\* FinalResult returning the document made of the finalized entries next to
\* the error of the last FinishCurrentEntry
FinalResultWithEntries(f, d) ==
  IF f.panic THEN Abort
  ELSE IF f.err # "" THEN [err |-> f.err, panic |-> FALSE, doc |-> d.doc]
  ELSE [err |-> d.err, panic |-> FALSE, doc |-> d.doc]

\* what ParseDocument returns once the last FinishCurrentEntry returned f
FinalResult(f, d) ==
  IF f.panic THEN Abort
  ELSE IF f.err # "" THEN Failure(f.err)
  ELSE [err |-> d.err, panic |-> FALSE, doc |-> d.doc]

FinishWith(f) ==
  /\ ctx' = f.ctx
  /\ result' = FinalResult(f, CreateDocument(f.ctx.Entries))

\* the end of input without the call of PushComments
FinishWithoutPending ==
  /\ pc = "organize"
  /\ pos > Len(lines)
  /\ FinishWith(FinishCurrentEntry(ctx))
  /\ pc' = "done"
  /\ UNCHANGED <<input, lines, pos>>

\* the end of input: the pending block joins the open entry, the entry is
\* finished and the document created
Finish ==
  /\ pc = "organize"
  /\ pos > Len(lines)
  /\ FinishWith(FinishCurrentEntry(PushComments(ctx)))
  /\ pc' = "done"
  /\ UNCHANGED <<input, lines, pos>>

Next ==
  \/ ScanLines
  \/ OrganizeObsoleteFailure
  \/ OrganizeComment
  \/ OrganizeHeader
  \/ OrganizeMsgctxt
  \/ OrganizeMsgid
  \/ OrganizeOther
  \/ Finish

Spec == Init /\ [][Next]_vars

(***************************************************************************)
(* ParseEntry on its own: a run of lines is handed to ParseEntry and its   *)
(* return value recorded.                                                  *)
(***************************************************************************)
MaxRun == 4

\* the lines the explored runs are made of
EntryLineNames ==
  {"blank", "comment", "idA", "ctxX", "str", "cont", "pluralId",
   "plural0", "plural1", "plural2", "obsId", "obsStr"}

\* the runs handed to ParseEntry
EntryRuns == SeqsUpTo(EntryLineNames, MaxRun)

EntryInit ==
  /\ input = <<>>
  /\ pc = "entry"
  /\ lines \in EntryRuns
  /\ pos = 1
  /\ ctx = NewContext
  /\ result = NoResult

\* the call ParseEntry(lines) and its return
CallParseEntry ==
  /\ pc = "entry"
  /\ pc' = "returned"
  /\ result' = ParseEntry(lines)
  /\ UNCHANGED <<input, lines, pos, ctx>>

EntryNext == CallParseEntry

EntrySpec == EntryInit /\ [][EntryNext]_vars

(***************************************************************************)
(* ParseEntry on runs of keyword lines: an id without value, a keyword     *)
(* ParseEntry does not support, and the lines of a plural entry.           *)
(***************************************************************************)
\* the lines the runs of keyword lines are made of
KeywordLineNames ==
  {"id0", "idA", "ctxX", "str", "cont", "pluralId", "plural0", "other"}

KeywordInit ==
  /\ input = <<>>
  /\ pc = "entry"
  /\ lines \in SeqsUpTo(KeywordLineNames, MaxRun)
  /\ pos = 1
  /\ ctx = NewContext
  /\ result = NoResult

KeywordSpec == KeywordInit /\ [][EntryNext]_vars

(***************************************************************************)
(* Properties of ParseDocument.                                            *)
(***************************************************************************)
\* ParseDocument returned a Document and no error
Succeeded == pc = "done" /\ result.err = "" /\ ~result.panic

\* ParseDocument returned the error err
FailedWith(err) == pc = "done" /\ result.err = err /\ ~result.panic

Last(s) == s[Len(s)]

\* the position of the first whitespace-only line of block, 0 without one
FirstWhiteSpace(block) ==
  LET ws == {i \in 1..Len(block) : LineOf(block[i]).IsWhiteSpace}
  IN  IF ws = {} THEN 0 ELSE CHOOSE i \in ws : \A j \in ws : i <= j

\* the pending lines before the first whitespace-only line, all without one
PendingBefore(block) ==
  IF FirstWhiteSpace(block) = 0 THEN block
  ELSE SubSeq(block, 1, FirstWhiteSpace(block) - 1)

\* the first whitespace-only pending line and every line after it
PendingFrom(block) ==
  IF FirstWhiteSpace(block) = 0 THEN <<>>
  ELSE SubSeq(block, FirstWhiteSpace(block), Len(block))

\* the iteration is at a msgid or msgctxt line that starts a new entry
StartsEntry ==
  /\ IsContentLine
  /\ ~IsHeaderCase
  /\ lineToInspect.Keyword.Keyword \in {KwMsgctxt, KwMsgid}
  /\ ~ctx.ProcessingContextualEntry

\* the parse is at the end of its input
AtEnd == pc = "organize" /\ pos > Len(lines)

\* the lines of the entry the next step finalizes
EndingLines ==
  IF AtEnd THEN ctx.currentEntryLines \o ctx.currentCommentBlock
  ELSE ctx.currentEntryLines \o PendingBefore(ctx.currentCommentBlock)

KeysOf(entries) == {EntryKey(entries[i]) : i \in 1..Len(entries)}

DistinctKeys(entries) ==
  \A i, j \in 1..Len(entries) : i # j => EntryKey(entries[i]) # EntryKey(entries[j])

\* ParseEntry accepts the run and its key is the key of an entry of entries
RepeatsKey(p, entries) ==
  p.err = "" /\ ~p.panic /\ EntryKey(p.entry) \in KeysOf(entries)

\* the entry has no msgctxt line, plain or marked obsolete
HasNoContextLine(entry) ==
  \A k \in 1..Len(entry.Lines) :
    /\ LineOf(entry.Lines[k]).Keyword.Keyword # KwMsgctxt
    /\ Inspected[entry.Lines[k]].Keyword.Keyword # KwMsgctxt

\* C1: every Document ParseDocument returns without error has at least one
\* entry, and its first entry has an empty Id and no context: an empty
\* Context and no msgctxt line.
C1_HeaderEntryFirst ==
  Succeeded =>
    /\ Len(result.doc.Entries) >= 1
    /\ result.doc.Entries[1].Id = <<>>
    /\ result.doc.Entries[1].Context = <<>>
    /\ HasNoContextLine(result.doc.Entries[1])

\* a Document with the header entry and a further entry was returned
C1_Witness ==
  Succeeded /\ Len(result.doc.Entries) >= 2 /\ result.doc.Entries[2].Id # <<>>

\* C2: the entries of a returned Document have pairwise different EntryKeys,
\* and a step that finalizes a run whose key belongs to an entry finalized
\* earlier in the parse ends the parse with a DocumentParseError.
C2_NoDuplicateKeys ==
  [][/\ Succeeded' => DistinctKeys(result'.doc.Entries)
     /\ DistinctKeys(ctx'.Entries)
     /\ ((StartsEntry \/ AtEnd) /\ RepeatsKey(ParseEntry(EndingLines), ctx.Entries))
          => FailedWith("DocumentParseError")']_vars

\* the parse failed where an entry repeating an earlier key was finalized
C2_Witness ==
  /\ FailedWith("DocumentParseError")
  /\ Len(ctx.Entries) >= 2
  /\ ctx.HaveHeader /\ ~ctx.ProcessingContextualEntry
  /\ pos <= Len(lines) => Inspected[lines[pos]].Keyword.Keyword \in {KwMsgctxt, KwMsgid}
  /\ RepeatsKey(ParseEntry(ctx.currentEntryLines \o PendingBefore(ctx.currentCommentBlock)),
                ctx.Entries)

\* the line is a plain line with the simple keyword kw
IsKeywordLine(n, kw) ==
  /\ ~LineOf(n).IsCommentOrWhiteSpace
  /\ ~LineOf(n).Keyword.IsIndexed
  /\ LineOf(n).Keyword.Keyword = kw

\* run holds its msgid line at i and its msgstr line at j, and otherwise
\* only comments and whitespace, none of them marked obsolete
IsNonPluralAt(run, i, j) ==
  /\ IsKeywordLine(run[i], KwMsgid)
  /\ IsKeywordLine(run[j], KwMsgstr)
  /\ \A k \in (1..Len(run)) \ {i, j} :
       LineOf(run[k]).IsCommentOrWhiteSpace /\ ~LineOf(run[k]).IsMarkedObsolete

\* ParseEntry returned p for such a run: the entry with the two values
AcceptedNonPlural(p, run, i, j) ==
  /\ p.err = "" /\ ~p.panic
  /\ p.entry.Id = LineOf(run[i]).Value.Value
  /\ p.entry.Value = LineOf(run[j]).Value.Value
  /\ p.entry.PluralValues = <<>>

\* C3: ParseEntry accepts a non-plural entry (one msgid line, one msgstr
\* line, no msgid_plural and no msgstr[N]) and gives it the unescaped values
\* as Id and Value and no PluralValues; the catalog of the header entry and
\* the entry msgid "a" / msgstr "v" parses to exactly two entries.
C3_NonPluralEntryAccepted ==
  /\ (StartsEntry \/ AtEnd) =>
       \A i, j \in 1..Len(EndingLines) :
         (i < j /\ IsNonPluralAt(EndingLines, i, j))
           => AcceptedNonPlural(ParseEntry(EndingLines), EndingLines, i, j)
  /\ (pc = "done" /\ input = TestHeader \o <<"idA", "str">>)
       => (Succeeded /\ Len(result.doc.Entries) = 2)

\* the context line of an entry opening, "" without one
OpeningContext(o) == IF Len(o) = 2 THEN o[1] ELSE ""

\* the two openings share the id under different contexts (one of them may
\* have none), or share the context under different ids
DistinctOpenings(o1, o2) ==
  \/ Last(o1) = Last(o2) /\ OpeningContext(o1) # OpeningContext(o2)
  \/ Last(o1) # Last(o2) /\ OpeningContext(o1) = OpeningContext(o2)

\* the catalogs of the test header and two such entries, each closed by its msgstr
DistinctEntryInputs ==
  {TestHeader \o o[1] \o <<"str">> \o o[2] \o <<"str">> :
     o \in {q \in EntryOpenings \X EntryOpenings : DistinctOpenings(q[1], q[2])}}

\* C4: two entries with the same id and different contexts (either may have
\* none), or with the same context and different ids, are no duplicates: the
\* catalog parses, and the Document holds the header entry and both entries.
C4_DistinctKeysParse ==
  (pc = "done" /\ input \in DistinctEntryInputs)
    => (Succeeded /\ Len(result.doc.Entries) = 3)

\* the entry StartNextEntry finalized in the step, and the entry it opened
StartedEntry(ended, opened) ==
  /\ Len(ctx'.Entries) = Len(ctx.Entries) + 1
  /\ SubSeq(ctx'.Entries, 1, Len(ctx.Entries)) = ctx.Entries
  /\ Last(ctx'.Entries).Lines = ended
  /\ ctx'.currentEntryLines = opened
  /\ ctx'.currentCommentBlock = <<>>

\* C5: when a msgid or msgctxt line starts a new entry and no pending line
\* is whitespace-only, every pending line joins the ending entry and the new
\* entry's first line is the msgid or msgctxt line.
C5_PendingJoinsEndingEntry ==
  [][(StartsEntry /\ pc' = "organize" /\ FirstWhiteSpace(ctx.currentCommentBlock) = 0)
       => StartedEntry(ctx.currentEntryLines \o ctx.currentCommentBlock,
                       <<lines[pos]>>)]_vars

\* an entry ending in a pending comment was finalized, and the open entry
\* holds the msgid or msgctxt line alone
C5_Witness ==
  /\ pc = "organize" /\ pos > 1
  /\ Len(ctx.Entries) >= 1
  /\ LineOf(Last(Last(ctx.Entries).Lines)).IsComment
  /\ ctx.currentEntryLines = <<lines[pos - 1]>>
  /\ Inspected[lines[pos - 1]].Keyword.Keyword \in {KwMsgctxt, KwMsgid}

\* C6: when a msgid or msgctxt line starts a new entry and a pending line is
\* whitespace-only, the pending lines before the first such line join the
\* ending entry; that line and every pending line after it lead the new
\* entry, in order, before the msgid or msgctxt line.
C6_WhitespaceSplitsPending ==
  [][(StartsEntry /\ pc' = "organize" /\ FirstWhiteSpace(ctx.currentCommentBlock) > 0)
       => StartedEntry(ctx.currentEntryLines \o PendingBefore(ctx.currentCommentBlock),
                       PendingFrom(ctx.currentCommentBlock) \o <<lines[pos]>>)]_vars

\* an entry ending in a pending comment was finalized, and the open entry
\* holds a whitespace line, a comment and the msgid or msgctxt line
C6_Witness ==
  /\ pc = "organize" /\ pos > 1
  /\ Len(ctx.Entries) >= 1
  /\ LineOf(Last(Last(ctx.Entries).Lines)).IsComment
  /\ Len(ctx.currentEntryLines) >= 3
  /\ LineOf(ctx.currentEntryLines[1]).IsWhiteSpace
  /\ LineOf(ctx.currentEntryLines[2]).IsComment
  /\ Last(ctx.currentEntryLines) = lines[pos - 1]
  /\ Inspected[lines[pos - 1]].Keyword.Keyword \in {KwMsgctxt, KwMsgid}

\* C7: at the end of input the whole pending block joins the open entry,
\* which is then finalized: ParseEntry's error for these lines fails the
\* parse, and a returned Document holds the entries finalized before and one
\* more entry, made of these lines.
C7_EndOfInputFlush ==
  [][AtEnd =>
       /\ ParseEntry(EndingLines).err # ""
            => (pc' = "done" /\ result'.err = ParseEntry(EndingLines).err)
       /\ Succeeded' =>
            /\ Len(result'.doc.Entries) = Len(ctx.Entries) + 1
            /\ SubSeq(result'.doc.Entries, 1, Len(ctx.Entries)) = ctx.Entries
            /\ Last(result'.doc.Entries).Lines = EndingLines]_vars

\* a Document was returned whose last entry ends in a whitespace line and a
\* comment
C7_Witness ==
  /\ Succeeded
  /\ Len(Last(result.doc.Entries).Lines) >= 2
  /\ LineOf(Last(Last(result.doc.Entries).Lines)).IsComment
  /\ LineOf(Last(result.doc.Entries).Lines[Len(Last(result.doc.Entries).Lines) - 1]).IsWhiteSpace

\* the line is marked obsolete and the text after its marker is a line with
\* the simple keyword kw
IsObsoleteLine(n, kw) ==
  /\ LineOf(n).IsMarkedObsolete
  /\ Inspected[n].err = "" /\ ~Inspected[n].panic
  /\ ~Inspected[n].Keyword.IsIndexed
  /\ Inspected[n].Keyword.Keyword = kw

\* run is an obsolete msgid line followed by an obsolete msgstr line
IsObsoletePair(run) ==
  /\ Len(run) = 2
  /\ IsObsoleteLine(run[1], KwMsgid)
  /\ IsObsoleteLine(run[2], KwMsgstr)

\* ParseEntry returned p for such a run: the obsolete entry with the values
\* of the text after the markers and the lines as they are
AcceptedObsolete(p, run) ==
  /\ p.err = "" /\ ~p.panic
  /\ p.entry.IsObsolete
  /\ p.entry.Id = Inspected[run[1]].Value.Value
  /\ p.entry.Value = Inspected[run[2]].Value.Value
  /\ p.entry.Lines = run

\* C8: an entry all of whose lines are marked obsolete parses as one entry
\* with IsObsolete true, its Id and Value those of the text after the
\* markers and its Lines the comment lines as they are; after a header
\* entry it is an entry of its own.
C8_ObsoleteEntryParses ==
  /\ ((StartsEntry \/ AtEnd) /\ IsObsoletePair(EndingLines))
       => AcceptedObsolete(ParseEntry(EndingLines), EndingLines)
  /\ (pc = "done" /\ input = PluralHeader \o <<"obsId", "obsStr">>)
       => (Succeeded /\ Len(result.doc.Entries) = 2
                     /\ result.doc.Entries[2].IsObsolete)

\* a msgctxt line came before the current line and no msgid line since
ContextOpen ==
  \E j \in 1..(pos - 1) :
    /\ Inspected[lines[j]].Keyword.Keyword = KwMsgctxt
    /\ \A k \in (j + 1)..(pos - 1) : Inspected[lines[k]].Keyword.Keyword # KwMsgid

\* C9: after the header, a msgctxt line that arrives while
\* ProcessingContextualEntry is true (no msgid line since the previous
\* msgctxt line, whatever lines lie between) fails the parse with a
\* DocumentParseError.
C9_ConsecutiveContexts ==
  [][(/\ IsContentLine
      /\ ctx.HaveHeader
      /\ lineToInspect.Keyword.Keyword = KwMsgctxt
      /\ ctx.ProcessingContextualEntry \/ ContextOpen)
       => FailedWith("DocumentParseError")']_vars

\* the parse failed at a msgctxt line that follows an earlier msgctxt line
\* and a comment or whitespace line
C9_Witness ==
  /\ FailedWith("DocumentParseError")
  /\ pos > 1 /\ pos <= Len(lines)
  /\ ctx.HaveHeader /\ ctx.ProcessingContextualEntry
  /\ Inspected[lines[pos]].Keyword.Keyword = KwMsgctxt
  /\ LineOf(lines[pos - 1]).IsCommentOrWhiteSpace
  /\ ContextOpen

\* C10: before the header is established a msgctxt line, and a msgid line
\* with a non-empty value, fail the parse with a DocumentParseError; a msgid
\* line with an empty value establishes the header: the pending lines are
\* flushed into the current entry, the line is appended and HaveHeader set.
C10_HeaderEstablished ==
  [][(IsContentLine /\ ~ctx.HaveHeader) =>
       /\ actualLine.Keyword.Keyword = KwMsgctxt => FailedWith("DocumentParseError")'
       /\ (actualLine.Keyword.Keyword = KwMsgid /\ actualLine.Value.Raw # <<>>)
            => FailedWith("DocumentParseError")'
       /\ (actualLine.Keyword.Keyword = KwMsgid /\ actualLine.Value.Raw = <<>>)
            => /\ pc' = "organize"
               /\ pos' = pos + 1
               /\ ctx' = [ctx EXCEPT
                            !.HaveHeader = TRUE,
                            !.currentEntryLines =
                               ctx.currentEntryLines \o ctx.currentCommentBlock
                                 \o <<lines[pos]>>,
                            !.currentCommentBlock = <<>>]]_vars

\* the header was established by a msgid line that followed pending lines
C10_Witness ==
  /\ pc = "organize" /\ pos > 1
  /\ ctx.HaveHeader /\ ctx.Entries = <<>>
  /\ Len(ctx.currentEntryLines) >= 2
  /\ LineOf(ctx.currentEntryLines[1]).IsCommentOrWhiteSpace
  /\ Last(ctx.currentEntryLines) = lines[pos - 1]
  /\ LineOf(lines[pos - 1]).Keyword.Keyword = KwMsgid
  /\ ctx.currentCommentBlock = <<>>

\* the line is a msgid line with an empty value, the line that establishes
\* the header
IsHeaderLine(n) ==
  /\ ~LineOf(n).IsCommentOrWhiteSpace
  /\ LineOf(n).Keyword.Keyword = KwMsgid
  /\ LineOf(n).Value.Raw = <<>>

\* C11: ParseDocument returns a Document only if a msgid line with an empty
\* value established the header (HaveHeader became true); an input without
\* such a line is answered with an error.
C11_HeaderRequired ==
  /\ Succeeded => ctx.HaveHeader
  /\ (pc = "done" /\ \A i \in 1..Len(input) : ~IsHeaderLine(input[i]))
       => (result.err # "" /\ ~result.panic)

(***************************************************************************)
(* gettext/PluralRuleParser.go: the tokenizer of a plural rule.  The       *)
(* text/scanner is modelled for the modes and the IsIdentRune function     *)
(* tokenizePluralRule sets, on ASCII text with decimal numbers.            *)
(***************************************************************************)
\* scanner.GoWhitespace
ScannerWhitespace == {" ", "\t", "\n", "\r"}

\* IsIdentRune of tokenizePluralRule
RuleIdentRunes == Letters \cup {"!", "=", "."}

\* token{kind, value}
Token(kind, value) == [Kind |-> kind, Value |-> value]

\* s.Scan() of the rule scanner with the whitespace skipped: the token starts
\* at b.  tok is "EOF", "Ident", "Int" or the character itself.
ScanRuleToken(s, b) ==
  IF b > Len(s) THEN [tok |-> "EOF", text |-> <<>>, offset |-> b, next |-> b]
  ELSE IF s[b] \in RuleIdentRunes
  THEN [tok |-> "Ident", text |-> SubSeq(s, b, SkipWhile(s, b, RuleIdentRunes) - 1),
        offset |-> b, next |-> SkipWhile(s, b, RuleIdentRunes)]
  ELSE IF s[b] \in Digits
  THEN [tok |-> "Int", text |-> SubSeq(s, b, SkipWhile(s, b, Digits) - 1),
        offset |-> b, next |-> SkipWhile(s, b, Digits)]
  ELSE [tok |-> s[b], text |-> <<s[b]>>, offset |-> b, next |-> b + 1]

\* s.Scan() of the rule scanner at position i
ScanRule(s, i) == ScanRuleToken(s, SkipWhile(s, i, ScannerWhitespace))

OperandNames == {"n", "i", "v", "w", "f", "t", "c", "e"}

\* the switch over s.TokenText() of an identifier; kind "" is its default
\* branch
IdentToken(text) ==
  CASE text = <<".", ".">> -> Token("tokenRange", <<>>)
    [] text = <<"o", "r">> -> Token("tokenOr", <<>>)
    [] text = <<"a", "n", "d">> -> Token("tokenAnd", <<>>)
    [] text = <<"=">> -> Token("tokenEquals", <<>>)
    [] text = <<"!", "=">> -> Token("tokenNotEquals", <<>>)
    [] Len(text) = 1 /\ text[1] \in OperandNames -> Token("tokenOperandName", text)
    [] OTHER -> Token("", text)

\* the switch over tok for a character or a number; kind "" is its default
\* branch
CharToken(sc) ==
  CASE sc.tok = "Int" -> Token("tokenNumber", sc.text)
    [] sc.tok = "%" -> Token("tokenModulus", <<>>)
    [] sc.tok = "," -> Token("tokenComma", <<>>)
    [] OTHER -> Token("", sc.text)

\* the token the body of ScanLoop appends for a scanned token
RuleTokenOf(sc) == IF sc.tok = "Ident" THEN IdentToken(sc.text) ELSE CharToken(sc)

RECURSIVE ScanLoop(_, _, _)
\* ScanLoop of tokenizePluralRule with sc scanned and tokens appended so far:
\* the tokens and the text from the offset of the last scanned token, or a
\* panic
ScanLoop(s, sc, tokens) ==
  IF sc.tok = "EOF" \/ sc.tok = "@"
  THEN [panic |-> FALSE, tokens |-> tokens, sample |-> Drop(s, sc.offset - 1)]
  ELSE IF RuleTokenOf(sc).Kind = ""
  THEN [panic |-> TRUE, tokens |-> <<>>, sample |-> <<>>]
  ELSE ScanLoop(s, ScanRule(s, sc.next), Append(tokens, RuleTokenOf(sc)))

tokenizePluralRule(pluralRule) == ScanLoop(pluralRule, ScanRule(pluralRule, 1), <<>>)

(***************************************************************************)
(* decimal.Decimal: the number num / 10^scale, num and scale naturals.     *)
(***************************************************************************)
Dec(num, scale) == [num |-> num, scale |-> scale]

RECURSIVE Pow10(_)
Pow10(k) == IF k = 0 THEN 1 ELSE 10 * Pow10(k - 1)

\* d.num at the scale k >= d.scale
Rescale(d, k) == d.num * Pow10(k - d.scale)

MaxOf(a, b) == IF a > b THEN a ELSE b

\* a.Equal(b), a.LessThanOrEqual(b): comparisons of the numbers
DecEqual(a, b) ==
  Rescale(a, MaxOf(a.scale, b.scale)) = Rescale(b, MaxOf(a.scale, b.scale))

DecLessEq(a, b) ==
  Rescale(a, MaxOf(a.scale, b.scale)) <= Rescale(b, MaxOf(a.scale, b.scale))

\* a.Add(b)
DecAdd(a, b) ==
  Dec(Rescale(a, MaxOf(a.scale, b.scale)) + Rescale(b, MaxOf(a.scale, b.scale)),
      MaxOf(a.scale, b.scale))

\* a.Mod(b), b not zero
DecMod(a, b) ==
  Dec(Rescale(a, MaxOf(a.scale, b.scale)) % Rescale(b, MaxOf(a.scale, b.scale)),
      MaxOf(a.scale, b.scale))

\* decimal.NewFromString of digits with an optional fraction
DecimalFromString(text) ==
  IF SkipWhile(text, 1, Digits) > Len(text) THEN Dec(AtoiValue(text, 0), 0)
  ELSE Dec(AtoiValue(SubSeq(text, 1, SkipWhile(text, 1, Digits) - 1)
                       \o Drop(text, SkipWhile(text, 1, Digits)), 0),
           Len(text) - SkipWhile(text, 1, Digits))

\* the operands of a number.  createOperands is not part of the available
\* source: n is the number, i its integer digits, v the count of its fraction
\* digits, f the fraction digits, w and t the same without trailing zeros.
TrailingZeros(d) ==
  IF d.scale = 0 THEN 0
  ELSE CHOOSE k \in 0..d.scale :
         /\ d.num % Pow10(k) = 0
         /\ (k < d.scale => d.num % Pow10(k + 1) # 0)

createOperands(d) ==
  [N |-> d,
   I |-> Dec(d.num \div Pow10(d.scale), 0),
   V |-> Dec(d.scale, 0),
   W |-> Dec(d.scale - TrailingZeros(d), 0),
   F |-> Dec(d.num % Pow10(d.scale), 0),
   T |-> Dec((d.num % Pow10(d.scale)) \div Pow10(TrailingZeros(d)), 0)]

(***************************************************************************)
(* gettext/PluralRuleParser.go: the compiler.  A relation, a closure in    *)
(* the source, is the tree of what the closure captured; EvalRelation      *)
(* calls it.  A parse is [panic, tokens, rel]: tokens are the tokens left. *)
(***************************************************************************)
ParsePanic == [panic |-> TRUE, tokens |-> <<>>, rel |-> <<>>]

Parsed(tokens, rel) == [panic |-> FALSE, tokens |-> tokens, rel |-> rel]

\* readNextToken for one or two expected kinds: kind "tokenNotFound" leaves
\* the tokens as they are
readNextToken(tokens, expectedKinds) ==
  IF tokens # <<>> /\ Head(tokens).Kind \in expectedKinds
  THEN [kind |-> Head(tokens).Kind, value |-> Head(tokens).Value, tokens |-> Tail(tokens)]
  ELSE [kind |-> "tokenNotFound", value |-> <<>>, tokens |-> tokens]

\* readNumber after mustReadNextToken(tokens, tokenNumber) returned r
readNumber(tokens) ==
  IF readNextToken(tokens, {"tokenNumber"}).kind = "tokenNotFound" THEN ParsePanic
  ELSE Parsed(Tail(tokens), DecimalFromString(Head(tokens).Value))

\* readModulus and readRange: rel is [found, number]
readOptionalNumber(tokens, kind) ==
  IF readNextToken(tokens, {kind}).kind = "tokenNotFound"
  THEN Parsed(tokens, [found |-> FALSE, number |-> Dec(0, 0)])
  ELSE IF readNumber(Tail(tokens)).panic THEN ParsePanic
  ELSE Parsed(readNumber(Tail(tokens)).tokens,
              [found |-> TRUE, number |-> readNumber(Tail(tokens)).rel])

readModulus(tokens) == readOptionalNumber(tokens, "tokenModulus")

readRange(tokens) == readOptionalNumber(tokens, "tokenRange")

\* constructAccessor: rel is the accessor [name, hasModValue, modValue]
constructAccessor(tokens) ==
  IF readNextToken(tokens, {"tokenOperandName"}).kind = "tokenNotFound" THEN ParsePanic
  ELSE IF readModulus(Tail(tokens)).panic THEN ParsePanic
  ELSE Parsed(readModulus(Tail(tokens)).tokens,
              [name |-> Head(tokens).Value[1],
               hasModValue |-> readModulus(Tail(tokens)).rel.found,
               modValue |-> readModulus(Tail(tokens)).rel.number])

\* the accessors accessorN .. accessorE
AccessOperand(name, o) ==
  CASE name = "n" -> o.N [] name = "i" -> o.I [] name = "v" -> o.V
    [] name = "w" -> o.W [] name = "f" -> o.F [] name = "t" -> o.T
    [] name = "c" -> Dec(0, 0) [] name = "e" -> Dec(0, 0)

\* a call of the accessor constructAccessor returns
Access(accessor, o) ==
  IF accessor.hasModValue
  THEN DecMod(AccessOperand(accessor.name, o), accessor.modValue)
  ELSE AccessOperand(accessor.name, o)

\* SingleRelation whose closure for a range leaves out the ends of the range
SingleRelationExclusive(number, range, accessor, isEqualityOperation) ==
  IF number.panic \/ range.panic THEN ParsePanic
  ELSE Parsed(range.tokens,
              [op |-> "single", accessor |-> accessor,
               isEqualityOperation |-> isEqualityOperation,
               number |-> IF range.rel.found
                          THEN DecAdd(number.rel, Dec(1, 0)) ELSE number.rel,
               isRange |-> range.rel.found,
               highNumber |-> IF range.rel.found
                              THEN DecAdd(range.rel.number, Dec(0 - 1, 0))
                              ELSE range.rel.number])

\* constructSingleRelation once the number and the optional range are read
SingleRelation(number, range, accessor, isEqualityOperation) ==
  IF number.panic \/ range.panic THEN ParsePanic
  ELSE Parsed(range.tokens,
              [op |-> "single", accessor |-> accessor,
               isEqualityOperation |-> isEqualityOperation,
               number |-> number.rel, isRange |-> range.rel.found,
               highNumber |-> range.rel.number])

\* constructSingleRelation with a range that leaves out its two ends
constructSingleRelationExclusive(tokens, accessor, isEqualityOperation) ==
  IF readNumber(tokens).panic THEN ParsePanic
  ELSE SingleRelationExclusive(readNumber(tokens),
                               readRange(readNumber(tokens).tokens),
                               accessor, isEqualityOperation)

constructSingleRelation(tokens, accessor, isEqualityOperation) ==
  IF readNumber(tokens).panic THEN ParsePanic
  ELSE SingleRelation(readNumber(tokens), readRange(readNumber(tokens).tokens),
                      accessor, isEqualityOperation)

\* relation = func(o) { return oldRelation(o) <op> newRelation(o) }
Combine(op, old, new) ==
  IF new.panic THEN ParsePanic
  ELSE Parsed(new.tokens, [op |-> op, oldRelation |-> old.rel, newRelation |-> new.rel])

RECURSIVE ListRelationLoopAsEquality(_, _, _)
\* ListRelationLoop constructing the relations after a comma as equalities
ListRelationLoopAsEquality(p, accessor, isEqualityOperation) ==
  IF p.panic \/ readNextToken(p.tokens, {"tokenComma"}).kind = "tokenNotFound" THEN p
  ELSE ListRelationLoopAsEquality(
         Combine("or", p, constructSingleRelation(Tail(p.tokens), accessor, TRUE)),
         accessor, isEqualityOperation)

RECURSIVE ListRelationLoop(_, _, _)
\* the loop of constructListRelation over tokenComma
ListRelationLoop(p, accessor, isEqualityOperation) ==
  IF p.panic \/ readNextToken(p.tokens, {"tokenComma"}).kind = "tokenNotFound" THEN p
  ELSE ListRelationLoop(
         Combine("or", p, constructSingleRelation(Tail(p.tokens), accessor,
                                                  isEqualityOperation)),
         accessor, isEqualityOperation)

\* constructListRelation once the accessor is constructed
ListRelationOf(a) ==
  IF a.panic THEN ParsePanic
  ELSE IF readNextToken(a.tokens, {"tokenEquals", "tokenNotEquals"}).kind = "tokenNotFound"
  THEN ParsePanic
  ELSE ListRelationLoop(
         constructSingleRelation(Tail(a.tokens), a.rel,
                                 Head(a.tokens).Kind = "tokenEquals"),
         a.rel, Head(a.tokens).Kind = "tokenEquals")

constructListRelation(tokens) == ListRelationOf(constructAccessor(tokens))

RECURSIVE AndConditionLoopJoiningWithOr(_)
\* AndConditionLoop with the joined closure of the loop over tokenOr
AndConditionLoopJoiningWithOr(p) ==
  IF p.panic \/ readNextToken(p.tokens, {"tokenAnd"}).kind = "tokenNotFound" THEN p
  ELSE AndConditionLoopJoiningWithOr(
         Combine("or", p, constructListRelation(Tail(p.tokens))))

RECURSIVE AndConditionLoop(_)
\* the loop of constructAndConditionChain over tokenAnd
AndConditionLoop(p) ==
  IF p.panic \/ readNextToken(p.tokens, {"tokenAnd"}).kind = "tokenNotFound" THEN p
  ELSE AndConditionLoop(Combine("and", p, constructListRelation(Tail(p.tokens))))

constructAndConditionChain(tokens) == AndConditionLoop(constructListRelation(tokens))

RECURSIVE OrConditionLoop(_)
\* the loop of parsePluralRule over tokenOr
OrConditionLoop(p) ==
  IF p.panic \/ readNextToken(p.tokens, {"tokenOr"}).kind = "tokenNotFound" THEN p
  ELSE OrConditionLoop(Combine("or", p, constructAndConditionChain(Tail(p.tokens))))

\* the closure constructSingleRelation returns, called on the value n of the
\* accessor
SingleHolds(r, n) ==
  (IF r.isRange THEN DecLessEq(r.number, n) /\ DecLessEq(n, r.highNumber)
   ELSE DecEqual(n, r.number)) = r.isEqualityOperation

RECURSIVE EvalRelation(_, _)
\* relation(o)
EvalRelation(r, o) ==
  CASE r.op = "single" -> SingleHolds(r, Access(r.accessor, o))
    [] r.op = "and" -> EvalRelation(r.oldRelation, o) /\ EvalRelation(r.newRelation, o)
    [] r.op = "or" -> EvalRelation(r.oldRelation, o) \/ EvalRelation(r.newRelation, o)
    [] r.op = "true" -> TRUE

\* the PluralRuleOperation parsePluralRule returns, called on the decimal d
ApplyOperation(rel, d) == EvalRelation(rel, createOperands(d))

(***************************************************************************)
(* gettext/PluralRuleSampleValidation.go.  The character U+2026 is written *)
(* "<2026>".  Numbers of the explored samples have no exponent.            *)
(***************************************************************************)
Ellipsis == "<2026>"

\* IsIdentRune(ch, i) of tokenizePluralRuleSample
SampleIdentRune(ch, i) ==
  \/ ch = "@"
  \/ ch \in Letters /\ i > 0
  \/ ch = Ellipsis
  \/ ch = "." /\ i \in {0, 1, 2}

RECURSIVE SampleIdentEnd(_, _, _)
\* the position after the identifier that starts at b, i runes of it read
SampleIdentEnd(s, b, i) ==
  IF b + i <= Len(s) /\ SampleIdentRune(s[b + i], i) THEN SampleIdentEnd(s, b, i + 1)
  ELSE b + i

\* the position after the number that starts at b: digits and, for a Float,
\* a fraction
SampleNumberEnd(s, b) ==
  IF SkipWhile(s, b, Digits) <= Len(s) /\ s[SkipWhile(s, b, Digits)] = "."
  THEN SkipWhile(s, SkipWhile(s, b, Digits) + 1, Digits)
  ELSE SkipWhile(s, b, Digits)

\* s.Scan() of the sample scanner with the whitespace skipped
ScanSampleToken(s, b) ==
  IF b > Len(s) THEN [tok |-> "EOF", text |-> <<>>, next |-> b]
  ELSE IF SampleIdentRune(s[b], 0)
  THEN [tok |-> "Ident", text |-> SubSeq(s, b, SampleIdentEnd(s, b, 0) - 1),
        next |-> SampleIdentEnd(s, b, 0)]
  ELSE IF s[b] \in Digits
  THEN [tok |-> "Number", text |-> SubSeq(s, b, SampleNumberEnd(s, b) - 1),
        next |-> SampleNumberEnd(s, b)]
  ELSE [tok |-> s[b], text |-> <<s[b]>>, next |-> b + 1]

ScanSample(s, i) == ScanSampleToken(s, SkipWhile(s, i, ScannerWhitespace))

\* the switch over s.TokenText() of a sample identifier
SampleIdentToken(text) ==
  CASE text = <<".", ".", ".">> -> Token("tokenTripleDot", <<>>)
    [] text = <<Ellipsis>> -> Token("tokenTripleDot", <<>>)
    [] text = <<"@", "i", "n", "t", "e", "g", "e", "r">> -> Token("tokenIntegerSample", <<>>)
    [] text = <<"@", "d", "e", "c", "i", "m", "a", "l">> -> Token("tokenDecimalSample", <<>>)
    [] OTHER -> Token("", text)

\* tokens[:len(tokens)-1]
DropLast(tokens) == SubSeq(tokens, 1, Len(tokens) - 1)

RECURSIVE SampleScanLoop(_, _, _, _)
\* ScanLoop of tokenizePluralRuleSample
SampleScanLoop(s, sc, tokens, foundExponentialNotation) ==
  CASE sc.tok = "EOF" -> [panic |-> FALSE, tokens |-> tokens]
    [] sc.tok = "Ident" ->
         IF SampleIdentToken(sc.text).Kind = "" THEN [panic |-> TRUE, tokens |-> <<>>]
         ELSE SampleScanLoop(s, ScanSample(s, sc.next),
                             Append(tokens, SampleIdentToken(sc.text)),
                             foundExponentialNotation)
    [] sc.tok = "Number" ->
         IF foundExponentialNotation
         THEN SampleScanLoop(s, ScanSample(s, sc.next), tokens, FALSE)
         ELSE SampleScanLoop(s, ScanSample(s, sc.next),
                             Append(tokens, Token("tokenNumber", sc.text)), FALSE)
    [] sc.tok = "~" ->
         SampleScanLoop(s, ScanSample(s, sc.next),
                        Append(tokens, Token("tokenRange", <<>>)),
                        foundExponentialNotation)
    [] sc.tok = "," ->
         SampleScanLoop(s, ScanSample(s, sc.next),
                        Append(tokens, Token("tokenComma", <<>>)),
                        foundExponentialNotation)
    [] sc.tok \in {"c", "e"} ->
         IF tokens = <<>> THEN [panic |-> TRUE, tokens |-> <<>>]
         ELSE SampleScanLoop(s, ScanSample(s, sc.next), DropLast(tokens), TRUE)
    [] OTHER -> [panic |-> TRUE, tokens |-> <<>>]

tokenizePluralRuleSample(sample) == SampleScanLoop(sample, ScanSample(sample, 1), <<>>, FALSE)

\* one.Pow(o.V.Neg()): 1 to any power
RangeIncrement(n) == Dec(1, 0)

RECURSIVE ExpandRange(_, _, _, _)
\* for d := lowValue.Add(increment); d.LessThanOrEqual(n); d = d.Add(increment)
ExpandRange(d, n, increment, results) ==
  IF DecLessEq(d, n) THEN ExpandRange(DecAdd(d, increment), n, increment, Append(results, d))
  ELSE results

\* the body of the loop of parsePluralRuleSample for the token t
SampleToken(st, t) ==
  CASE t.Kind = "tokenNumber" ->
         IF st.isRange
         THEN [st EXCEPT !.results =
                           ExpandRange(DecAdd(st.lowValue, RangeIncrement(DecimalFromString(t.Value))),
                                       DecimalFromString(t.Value),
                                       RangeIncrement(DecimalFromString(t.Value)), @),
                         !.isRange = FALSE]
         ELSE [st EXCEPT !.results = Append(@, DecimalFromString(t.Value)),
                         !.lowValue = DecimalFromString(t.Value)]
    [] t.Kind = "tokenRange" -> [st EXCEPT !.isRange = TRUE]
    [] OTHER -> st

RECURSIVE SampleLoop(_, _, _)
SampleLoop(st, tokens, i) ==
  IF i > Len(tokens) THEN st ELSE SampleLoop(SampleToken(st, tokens[i]), tokens, i + 1)

\* parsePluralRuleSample once the sample is tokenized
SamplesOfTokens(tk) ==
  IF tk.panic THEN [panic |-> TRUE, samples |-> <<>>]
  ELSE [panic |-> FALSE,
        samples |-> SampleLoop([results |-> <<>>, lowValue |-> Dec(0, 0), isRange |-> FALSE],
                               tk.tokens, 1).results]

parsePluralRuleSample(sample) == SamplesOfTokens(tokenizePluralRuleSample(sample))

RECURSIVE InvalidSamplesUpToFirst(_, _, _)
\* InvalidSamples leaving the loop at the first sample the rule rejects
InvalidSamplesUpToFirst(rel, samples, i) ==
  IF i > Len(samples) THEN <<>>
  ELSE IF ApplyOperation(rel, samples[i]) THEN InvalidSamplesUpToFirst(rel, samples, i + 1)
  ELSE <<samples[i]>>

RECURSIVE InvalidSamples(_, _, _)
\* the loop of validatePluralRule over samples[i..]
InvalidSamples(rel, samples, i) ==
  IF i > Len(samples) THEN <<>>
  ELSE (IF ApplyOperation(rel, samples[i]) THEN <<>> ELSE <<samples[i]>>)
       \o InvalidSamples(rel, samples, i + 1)

\* validatePluralRule once the samples are expanded: failed tells whether an
\* error is returned
ValidationOf(rel, sm, ruleString) ==
  IF sm.panic THEN [panic |-> TRUE, failed |-> FALSE, RuleString |-> <<>>, InvalidSamples |-> <<>>]
  ELSE IF Len(InvalidSamples(rel, sm.samples, 1)) > 0
  THEN [panic |-> FALSE, failed |-> TRUE, RuleString |-> ruleString,
        InvalidSamples |-> InvalidSamples(rel, sm.samples, 1)]
  ELSE [panic |-> FALSE, failed |-> FALSE, RuleString |-> <<>>, InvalidSamples |-> <<>>]

validatePluralRule(rel, sampleString, ruleString) ==
  ValidationOf(rel, parsePluralRuleSample(sampleString), ruleString)

(***************************************************************************)
(* parsePluralRule.  kind is "nil" (no operation), "operation" (rel is the *)
(* relation of the returned operation) or "panic"; a panic whose value is  *)
(* a PluralRuleValidationError carries it in error.                        *)
(***************************************************************************)
NoValidationError == [RuleString |-> <<>>, InvalidSamples |-> <<>>]

RuleOutcome(kind, rel, error) == [kind |-> kind, rel |-> rel, error |-> error]

RulePanic == RuleOutcome("panic", <<>>, NoValidationError)

\* parsePluralRule from the call of validatePluralRule on
RuleValidated(rel, v) ==
  IF v.panic THEN RulePanic
  ELSE IF v.failed
  THEN RuleOutcome("panic", <<>>,
                   [RuleString |-> v.RuleString, InvalidSamples |-> v.InvalidSamples])
  ELSE RuleOutcome("operation", rel, NoValidationError)

\* parsePluralRule once the relation is constructed
RuleCompiled(p, sample, pluralRule) ==
  IF p.panic \/ Len(p.tokens) > 0 THEN RulePanic
  ELSE RuleValidated(p.rel, validatePluralRule(p.rel, sample, pluralRule))

\* parsePluralRule once the rule is tokenized
RuleTokenized(tk, pluralRule) ==
  IF tk.panic THEN RulePanic
  ELSE IF Len(tk.tokens) = 0 THEN RuleOutcome("operation", [op |-> "true"], NoValidationError)
  ELSE RuleCompiled(OrConditionLoop(constructAndConditionChain(tk.tokens)),
                    tk.sample, pluralRule)

\* parsePluralRule returning the operation whatever tokens are left over
parsePluralRuleLeavingTokens(pluralRule) ==
  IF Len(pluralRule) = 0 THEN RuleOutcome("nil", <<>>, NoValidationError)
  ELSE IF tokenizePluralRule(pluralRule).panic THEN RulePanic
  ELSE IF Len(tokenizePluralRule(pluralRule).tokens) = 0
  THEN RuleOutcome("operation", [op |-> "true"], NoValidationError)
  ELSE IF OrConditionLoop(
            constructAndConditionChain(tokenizePluralRule(pluralRule).tokens)).panic
  THEN RulePanic
  ELSE RuleOutcome("operation",
                   OrConditionLoop(
                     constructAndConditionChain(
                       tokenizePluralRule(pluralRule).tokens)).rel,
                   NoValidationError)

\* parsePluralRule validating the samples of a rule without tokens too
parsePluralRuleValidatingAlways(pluralRule) ==
  IF Len(pluralRule) = 0 THEN RuleOutcome("nil", <<>>, NoValidationError)
  ELSE IF tokenizePluralRule(pluralRule).panic THEN RulePanic
  ELSE IF Len(tokenizePluralRule(pluralRule).tokens) = 0
  THEN RuleValidated([op |-> "true"],
                     validatePluralRule([op |-> "true"],
                                        tokenizePluralRule(pluralRule).sample,
                                        pluralRule))
  ELSE RuleTokenized(tokenizePluralRule(pluralRule), pluralRule)

parsePluralRule(pluralRule) ==
  IF Len(pluralRule) = 0 THEN RuleOutcome("nil", <<>>, NoValidationError)
  ELSE RuleTokenized(tokenizePluralRule(pluralRule), pluralRule)

(***************************************************************************)
(* The explored plural rules, written from their parts: relations, the     *)
(* connectives between them and a sample clause.                           *)
(***************************************************************************)
\* most relations of an explored rule
MaxRelations == 3
\* most numbers and ranges in the list of an explored relation
MaxSingles == 2

\* a relation: the operand, the modulus (0 for none), the operator (eq for
\* =, otherwise !=) and the list of numbers <<k, k>> and ranges <<lo, hi>>
Relation(operand, mod, eq, singles) ==
  [operand |-> operand, mod |-> mod, eq |-> eq, singles |-> singles]

\* the relations the explored conditions are made of: n = 1, n % 2 = 0, i != 2
ChainRelations ==
  {Relation("n", 0, TRUE, <<<<1, 1>>>>), Relation("n", 2, TRUE, <<<<0, 0>>>>),
   Relation("i", 0, FALSE, <<<<2, 2>>>>)}

\* the numbers and ranges of the explored lists: 1, 3, 2..3
ListSingles == {<<1, 1>>, <<3, 3>>, <<2, 3>>}

\* the relations with a list: n, n % 3, i and v compared with = and !=
ListRelations ==
  {Relation(a[1], a[2], eq, sg) :
     a \in {<<"n", 0>>, <<"n", 3>>, <<"i", 0>>, <<"v", 0>>},
     eq \in BOOLEAN,
     sg \in UNION {[1..k -> ListSingles] : k \in 1..MaxSingles}}

SampleTexts ==
  [
    \* (no sample clause)
    none |-> <<>>,
    \* @integer 1
    one |-> <<"@", "i", "n", "t", "e", "g", "e", "r", " ", "1">>,
    \* @integer 0, 2
    two |-> <<"@", "i", "n", "t", "e", "g", "e", "r", " ", "0", ",", " ", "2">>,
    \* @integer 1~3
    range |-> <<"@", "i", "n", "t", "e", "g", "e", "r", " ", "1", "~", "3">>,
    \* @integer 0~2, 4, …
    mixed |-> <<"@", "i", "n", "t", "e", "g", "e", "r", " ", "0", "~", "2", ",", " ", "4", ",", " ", Ellipsis>>,
    \* @integer 3, 1, ...
    dots |-> <<"@", "i", "n", "t", "e", "g", "e", "r", " ", "3", ",", " ", "1", ",", " ", ".", ".", ".">>
  ]

\* a rule: its relations, the connective after each relation but the last,
\* and its sample clause
Rule(relations, connectives, sample) ==
  [relations |-> relations, connectives |-> connectives, sample |-> sample]

\* conditions of up to MaxRelations relations joined by and and or
ChainRules ==
  UNION {{Rule(rs, cs, SampleTexts.none) :
            rs \in [1..k -> ChainRelations], cs \in [1..(k - 1) -> {"and", "or"}]} :
         k \in 1..MaxRelations}

\* one relation with a list
ListRules == {Rule(<<r>>, <<>>, SampleTexts.none) : r \in ListRelations}

\* a condition of up to two relations, or none, with a sample clause
SampledRules ==
  UNION {{Rule(rs, cs, SampleTexts[sm]) :
            rs \in [1..k -> ChainRelations], cs \in [1..(k - 1) -> {"and", "or"}],
            sm \in DOMAIN SampleTexts \ {"none"}} :
         k \in 0..2}

Rules == ChainRules \cup ListRules \cup SampledRules

\* the numbers the compiled operations are called on
Numbers == 0..5

DigitChars == <<"0", "1", "2", "3", "4", "5", "6", "7", "8", "9">>

RECURSIVE RenderNumber(_)
RenderNumber(k) ==
  IF k < 10 THEN <<DigitChars[k + 1]>>
  ELSE RenderNumber(k \div 10) \o <<DigitChars[(k % 10) + 1]>>

RenderSingle(sg) ==
  IF sg[1] = sg[2] THEN RenderNumber(sg[1])
  ELSE RenderNumber(sg[1]) \o <<".", ".">> \o RenderNumber(sg[2])

RECURSIVE RenderSingles(_, _)
RenderSingles(singles, i) ==
  IF i = Len(singles) THEN RenderSingle(singles[i])
  ELSE RenderSingle(singles[i]) \o <<",", " ">> \o RenderSingles(singles, i + 1)

RenderRelation(r) ==
  <<r.operand>>
  \o (IF r.mod > 0 THEN <<" ", "%", " ">> \o RenderNumber(r.mod) ELSE <<>>)
  \o (IF r.eq THEN <<" ", "=", " ">> ELSE <<" ", "!", "=", " ">>)
  \o RenderSingles(r.singles, 1)

RenderConnective(c) ==
  IF c = "and" THEN <<" ", "a", "n", "d", " ">> ELSE <<" ", "o", "r", " ">>

RECURSIVE RenderCondition(_, _)
RenderCondition(rule, i) ==
  IF i > Len(rule.relations) THEN <<>>
  ELSE IF i = Len(rule.relations) THEN RenderRelation(rule.relations[i])
  ELSE RenderRelation(rule.relations[i]) \o RenderConnective(rule.connectives[i])
       \o RenderCondition(rule, i + 1)

\* the text of the rule, as the X-PluralRules fields of a header write it
RenderRule(rule) ==
  RenderCondition(rule, 1)
  \o (IF rule.sample = <<>> THEN <<>> ELSE <<" ">> \o rule.sample)

(***************************************************************************)
(* parsePluralRule on its own: a rule is compiled and the operation it     *)
(* returns is called on a number.                                          *)
(***************************************************************************)
RuleInit ==
  /\ input \in Rules
  /\ pc = "rule"
  /\ lines = <<>>
  /\ pos \in Numbers
  /\ ctx = NewContext
  /\ result = NoResult

\* the call parsePluralRule(pluralRule) for the text of the rule
CallParsePluralRule ==
  /\ pc = "rule"
  /\ pc' = "compiled"
  /\ result' = parsePluralRule(RenderRule(input))
  /\ UNCHANGED <<input, lines, pos, ctx>>

\* the call of the returned operation on the number pos
CallOperation ==
  /\ pc = "compiled"
  /\ result.kind = "operation"
  /\ pc' = "applied"
  /\ result' = [kind |-> "value", rel |-> result.rel, error |-> result.error,
                value |-> ApplyOperation(result.rel, Dec(pos, 0))]
  /\ UNCHANGED <<input, lines, pos, ctx>>

RuleNext == CallParsePluralRule \/ CallOperation

RuleSpec == RuleInit /\ [][RuleNext]_vars

(***************************************************************************)
(* The plural rules of a header: the fields pluralRuleExtractor finds are  *)
(* stored by category (CreateHeaderFromEntry), compiled and evaluated.     *)
(* PluralRulesDefinition.Parse and PluralRules.Evaluate are not part of    *)
(* the available source.                                                   *)
(***************************************************************************)
\* most X-PluralRules fields of an explored header
MaxFields == 2

Categories == <<"zero", "one", "two", "few", "many", "other">>

\* var d PluralRulesDefinition
NoDefinition == [c \in {Categories[k] : k \in 1..6} |-> <<>>]

\* strings.ToLower
LowerText(text) == [k \in 1..Len(text) |-> ToLower(text[k])]

\* the switch without strings.ToLower
AssignFieldCaseSensitive(d, field) ==
  CASE field.name = <<"z", "e", "r", "o">> -> [d EXCEPT !.zero = field.rule]
    [] field.name = <<"o", "n", "e">> -> [d EXCEPT !.one = field.rule]
    [] field.name = <<"t", "w", "o">> -> [d EXCEPT !.two = field.rule]
    [] field.name = <<"f", "e", "w">> -> [d EXCEPT !.few = field.rule]
    [] field.name = <<"m", "a", "n", "y">> -> [d EXCEPT !.many = field.rule]
    [] field.name = <<"o", "t", "h", "e", "r">> -> [d EXCEPT !.other = field.rule]
    [] OTHER -> d

\* the switch over strings.ToLower(rawPluralRules[1]) for one field
AssignField(d, field) ==
  CASE LowerText(field.name) = <<"z", "e", "r", "o">> -> [d EXCEPT !.zero = field.rule]
    [] LowerText(field.name) = <<"o", "n", "e">> -> [d EXCEPT !.one = field.rule]
    [] LowerText(field.name) = <<"t", "w", "o">> -> [d EXCEPT !.two = field.rule]
    [] LowerText(field.name) = <<"f", "e", "w">> -> [d EXCEPT !.few = field.rule]
    [] LowerText(field.name) = <<"m", "a", "n", "y">> -> [d EXCEPT !.many = field.rule]
    [] LowerText(field.name) = <<"o", "t", "h", "e", "r">> -> [d EXCEPT !.other = field.rule]
    [] OTHER -> d

RECURSIVE DefinitionOfFields(_, _, _)
\* the loop of CreateHeaderFromEntry over the fields[i..]
DefinitionOfFields(d, fields, i) ==
  IF i > Len(fields) THEN d
  ELSE DefinitionOfFields(AssignField(d, [name |-> fields[i].name,
                                          rule |-> RenderRule(fields[i].rule)]),
                          fields, i + 1)

\* PluralRulesDefinition.Parse: every rule text compiled by parsePluralRule
ParseDefinition(d) == [c \in DOMAIN d |-> parsePluralRule(d[c])]

\* the rule of the category is present and holds of the number
CategoryHolds(rules, c, n) == rules[c].kind = "operation" /\ ApplyOperation(rules[c].rel, n)

\* PluralRules.Evaluate: the first of zero, one, two, few and many whose rule
\* is present and holds, otherwise other
Evaluate(rules, n) ==
  IF \E k \in 1..5 : CategoryHolds(rules, Categories[k], n)
  THEN Categories[CHOOSE k \in 1..5 :
                    /\ CategoryHolds(rules, Categories[k], n)
                    /\ \A j \in 1..(k - 1) : ~CategoryHolds(rules, Categories[j], n)]
  ELSE "other"

\* the names of the fields, as the headers of the tests write them
FieldNames ==
  {<<"Z", "e", "r", "o">>, <<"O", "n", "e">>, <<"T", "w", "o">>, <<"F", "e", "w">>, <<"M", "a", "n", "y">>, <<"O", "t", "h", "e", "r">>}

\* the rules of the fields: one relation, none with a sample clause, nothing
FieldRules ==
  {Rule(<<r>>, <<>>, SampleTexts.none) : r \in ChainRelations}
  \cup {Rule(<<>>, <<>>, SampleTexts.one), Rule(<<>>, <<>>, SampleTexts.none)}

\* the X-PluralRules fields of the explored headers, in their order
FieldLists ==
  UNION {[1..k -> [name : FieldNames, rule : FieldRules]] : k \in 0..MaxFields}

EvaluateInit ==
  /\ input \in FieldLists
  /\ pc = "header"
  /\ lines = <<>>
  /\ pos \in Numbers
  /\ ctx = NewContext
  /\ result = NoResult

\* the plural rules of CreateHeaderFromEntry: the definition filled from the
\* fields and parsed
CreatePluralRules ==
  /\ pc = "header"
  /\ pc' = "rules"
  /\ result' = ParseDefinition(DefinitionOfFields(NoDefinition, input, 1))
  /\ UNCHANGED <<input, lines, pos, ctx>>

\* header.PluralRules.Evaluate(pos)
CallEvaluate ==
  /\ pc = "rules"
  /\ pc' = "evaluated"
  /\ result' = Evaluate(result, Dec(pos, 0))
  /\ UNCHANGED <<input, lines, pos, ctx>>

EvaluateNext == CreatePluralRules \/ CallEvaluate

EvaluateSpec == EvaluateInit /\ [][EvaluateNext]_vars

(***************************************************************************)
(* gettext/Line.go: CompleteLine, which writes the raw line of its parts.  *)
(***************************************************************************)
\* what CompleteLine writes for the keyword (strconv.Itoa is RenderNumber)
RawKeyword(keyword, lineValue, comment) ==
  IF keyword.IsEmpty THEN <<>>
  ELSE keyword.Keyword
       \o (IF keyword.IsIndexed THEN <<"[">> \o RenderNumber(keyword.Index) \o <<"]">>
           ELSE <<>>)
       \o (IF ~lineValue.IsEmpty \/ ~comment.IsEmpty THEN <<" ">> ELSE <<>>)

\* what CompleteLine writes for the value: lineValue.Value between quotes
RawValue(lineValue, comment) ==
  IF lineValue.IsEmpty THEN <<>>
  ELSE <<"\"">> \o lineValue.Value \o <<"\"">>
       \o (IF ~comment.IsEmpty THEN <<" ">> ELSE <<>>)

\* what CompleteLine writes for the comment
RawComment(comment) ==
  IF comment.IsEmpty THEN <<>> ELSE <<"#">> \o comment.Comment

CompleteLine(keyword, lineValue, comment) ==
  populateExtraBools(
    [NoLine EXCEPT !.Keyword = keyword,
                   !.Value = lineValue,
                   !.Comment = comment,
                   !.RawLine = RawKeyword(keyword, lineValue, comment)
                               \o RawValue(lineValue, comment)
                               \o RawComment(comment)])

(***************************************************************************)
(* gettext/LineValue.go: LineValueFromValue.  The pattern of               *)
(* valueStringParser is written in an interpreted string literal, so the   *)
(* expression the regexp package compiles has the alternatives             *)
(*   BEL, BS, ESC, FF, LF, CR, TAB, VT, \|" and [NUL-US]                   *)
(* where \| is an escaped bar: the ninth alternative matches the two       *)
(* characters bar and double quote, and neither a backslash nor a double   *)
(* quote on its own is matched.                                            *)
(***************************************************************************)
\* the cases of the callback for the control characters the first eight
\* alternatives match
NamedControls == {"<07>", "<08>", "<1b>", "\f", "\n", "\r", "\t", "<0b>"}

EscapeLetter(c) ==
  CASE c = "<07>" -> "a" [] c = "<08>" -> "b" [] c = "<1b>" -> "e"
    [] c = "\f" -> "f" [] c = "\n" -> "n" [] c = "\r" -> "r"
    [] c = "\t" -> "t" [] c = "<0b>" -> "v"

\* the other characters of [NUL-US] that the explored values hold, with what
\* fmt.Sprintf(`\x%x`, s) writes for them
OtherControls == {CodeTable[0], CodeTable[31]}

HexOfControl(c) == IF c = CodeTable[0] THEN <<"0", "0">> ELSE <<"1", "f">>

RECURSIVE Escape(_, _, _)
\* valueStringParser.ReplaceAllStringFunc over value from position i; out is
\* the text produced so far.  panic: the callback was called with the match
\* of the ninth alternative and reached its panic.
Escape(value, i, out) ==
  IF i > Len(value) THEN [panic |-> FALSE, Raw |-> out]
  ELSE IF value[i] \in NamedControls
  THEN Escape(value, i + 1, out \o <<"\\", EscapeLetter(value[i])>>)
  ELSE IF value[i] = "|" /\ i < Len(value) /\ value[i + 1] = "\""
  THEN [panic |-> TRUE, Raw |-> out]
  ELSE IF value[i] \in OtherControls
  THEN Escape(value, i + 1, out \o <<"\\", "x">> \o HexOfControl(value[i]))
  ELSE Escape(value, i + 1, Append(out, value[i]))

\* LineValueFromValue
LineValueFromValue(value) ==
  [panic |-> Escape(value, 1, <<>>).panic, IsEmpty |-> FALSE,
   Raw |-> Escape(value, 1, <<>>).Raw, Value |-> value]

(***************************************************************************)
(* The escape codec on its own: a value is escaped and the raw text        *)
(* unescaped again.                                                        *)
(***************************************************************************)
\* most characters of an explored value
MaxValue == 3

\* the characters of the explored values
ValueChars ==
  {"a", "n", "x", "0", "|", "\\", "\"", "\n", "\t", "<07>"} \cup OtherControls

CodecInit ==
  /\ input \in SeqsUpTo(ValueChars, MaxValue)
  /\ pc = "value"
  /\ lines = <<>>
  /\ pos = 1
  /\ ctx = NewContext
  /\ result = NoResult

\* LineValueFromValue(input)
CallLineValueFromValue ==
  /\ pc = "value"
  /\ pc' = "escaped"
  /\ result' = LineValueFromValue(input)
  /\ UNCHANGED <<input, lines, pos, ctx>>

\* LineValueFromRaw of the raw text LineValueFromValue returned
CallLineValueFromRaw ==
  /\ pc = "escaped"
  /\ ~result.panic
  /\ pc' = "unescaped"
  /\ result' = LineValueFromRaw(result.Raw)
  /\ UNCHANGED <<input, lines, pos, ctx>>

CodecNext == CallLineValueFromValue \/ CallLineValueFromRaw

CodecSpec == CodecInit /\ [][CodecNext]_vars

(***************************************************************************)
(* ParseLine on its own: one physical line is parsed.                      *)
(***************************************************************************)
\* most parts of an explored line
MaxParts == 3

\* the parts the explored lines are made of: a keyword, an index, an index
\* strconv.Atoi cannot hold, a blank, a quoted value, a lone quote, a comment
\* and a bare word
LineParts ==
  {KwMsgid, <<"[", "0", "]">>,
   <<"[">> \o [i \in 1..20 |-> "9"] \o <<"]">>,
   <<" ">>, <<"\"", "a", "\"">>, <<"\"">>, <<"#", "c">>, <<"x">>}

LineInit ==
  /\ input \in {Flatten(parts) : parts \in SeqsUpTo(LineParts, MaxParts)}
  /\ pc = "line"
  /\ lines = <<>>
  /\ pos = 1
  /\ ctx = NewContext
  /\ result = NoResult

\* ParseLine(input)
CallParseLine ==
  /\ pc = "line"
  /\ pc' = "parsed"
  /\ result' = ParseLine(input)
  /\ UNCHANGED <<input, lines, pos, ctx>>

LineNext == CallParseLine

LineSpec == LineInit /\ [][LineNext]_vars

(***************************************************************************)
(* ParseDocument called again on the same catalog once a call returned.    *)
(* During the second call result still holds what the first returned.      *)
(***************************************************************************)
\* most pieces of a catalog that is parsed twice
MaxTwice == 2

TwiceInputs ==
  TwoEntryInputs \cup {Flatten(b) : b \in SeqsUpTo(FreeFragments, MaxTwice)}

TwiceInit ==
  /\ input \in TwiceInputs
  /\ pc = "scan"
  /\ lines = <<>>
  /\ pos = 1
  /\ ctx = NewContext
  /\ result = NoResult

\* the second call whose context is the one the first call left, with the
\* keys it found
ParseAgainKeepingFound ==
  /\ pc = "done"
  /\ ~result.panic
  /\ pc' = "scan"
  /\ lines' = <<>>
  /\ pos' = 1
  /\ ctx' = [NewContext EXCEPT !.FoundEntries = ctx.FoundEntries]
  /\ UNCHANGED <<input, result>>

\* the next call of ParseDocument: lineCounter, lines and ctx are declared
\* anew, whatever the call before left in them
ParseAgain ==
  /\ pc = "done"
  /\ ~result.panic
  /\ pc' = "scan"
  /\ lines' = <<>>
  /\ pos' = 1
  /\ ctx' = NewContext
  /\ UNCHANGED <<input, result>>

TwiceNext == Next \/ ParseAgain

TwiceSpec == TwiceInit /\ [][TwiceNext]_vars

(***************************************************************************)
(* parsePluralRule on relations with a range: the rule is compiled and the *)
(* operation called on numbers of one and two digits.                      *)
(***************************************************************************)
\* the highest number an operation with a range is called on
MaxNumber == 25

\* n % 10 = 2..4 and n % 100 != 12..14
TensRule ==
  Rule(<<Relation("n", 10, TRUE, <<<<2, 4>>>>),
         Relation("n", 100, FALSE, <<<<12, 14>>>>)>>,
       <<"and">>, SampleTexts.none)

\* one relation on n, with or without modulus, with a number or a range
RangeRules ==
  {Rule(<<Relation("n", m, eq, <<sg>>)>>, <<>>, SampleTexts.none) :
     m \in {0, 10, 100}, eq \in BOOLEAN,
     sg \in {<<2, 4>>, <<12, 14>>, <<3, 3>>, <<13, 13>>}}

RangeInit ==
  /\ input \in RangeRules \cup {TensRule}
  /\ pc = "rule"
  /\ lines = <<>>
  /\ pos \in 0..MaxNumber
  /\ ctx = NewContext
  /\ result = NoResult

RangeSpec == RangeInit /\ [][RuleNext]_vars

(***************************************************************************)
(* parsePluralRule on rules without a relation: the empty text, blanks,    *)
(* and sample clauses on their own, well-formed or not.                    *)
(***************************************************************************)
\* what follows the (absent) condition of the explored rules
SampleOnlyTexts ==
  {SampleTexts[sm] : sm \in DOMAIN SampleTexts}
    \cup {<<" ">>,
          \* @integer x~
          <<"@", "i", "n", "t", "e", "g", "e", "r", " ", "x", "~">>,
          \* @integer 1 ?
          <<"@", "i", "n", "t", "e", "g", "e", "r", " ", "1", " ", "?">>}

SampleOnlyInit ==
  /\ input \in {Rule(<<>>, <<>>, sm) : sm \in SampleOnlyTexts}
  /\ pc = "rule"
  /\ lines = <<>>
  /\ pos \in 0..MaxNumber
  /\ ctx = NewContext
  /\ result = NoResult

SampleOnlySpec == SampleOnlyInit /\ [][RuleNext]_vars

(***************************************************************************)
(* parsePluralRule on token streams: every stream of a few words, and the  *)
(* streams one edit away from a rule with every part of the grammar.       *)
(***************************************************************************)
\* most words of the streams that are explored in full
MaxWords == 4

\* the words of the explored streams
RuleWords ==
  {<<"n">>, <<"%">>, <<"=">>, <<"1">>, <<".", ".">>, <<",">>,
   <<"a", "n", "d">>, <<"o", "r">>}

\* n % 1 = 1 .. 1 , 1 and n != 1 or n = 1
FullRule ==
  <<<<"n">>, <<"%">>, <<"1">>, <<"=">>, <<"1">>, <<".", ".">>, <<"1">>, <<",">>,
    <<"1">>, <<"a", "n", "d">>, <<"n">>, <<"!", "=">>, <<"1">>, <<"o", "r">>,
    <<"n">>, <<"=">>, <<"1">>>>

\* ws without its word at position i
WithoutWord(ws, i) == SubSeq(ws, 1, i - 1) \o SubSeq(ws, i + 1, Len(ws))

\* ws with the word w in front of position i
WithWordAt(ws, i, w) == SubSeq(ws, 1, i - 1) \o <<w>> \o SubSeq(ws, i, Len(ws))

\* FullRule cut short, and FullRule with one word taken out, put in or
\* replaced
EditedRules ==
  {SubSeq(FullRule, 1, k) : k \in 0..Len(FullRule)}
    \cup {WithoutWord(FullRule, i) : i \in 1..Len(FullRule)}
    \cup {WithWordAt(FullRule, i, w) : i \in 1..(Len(FullRule) + 1), w \in RuleWords}
    \cup {WithWordAt(WithoutWord(FullRule, i), i, w) :
            i \in 1..Len(FullRule), w \in RuleWords}

RECURSIVE JoinWords(_)
\* the text of a stream: its words with a blank between them
JoinWords(ws) ==
  IF ws = <<>> THEN <<>>
  ELSE IF Len(ws) = 1 THEN Head(ws)
  ELSE Head(ws) \o <<" ">> \o JoinWords(Tail(ws))

SyntaxInit ==
  /\ input \in (SeqsUpTo(RuleWords, MaxWords) \cup EditedRules) \ {<<>>}
  /\ pc = "rule"
  /\ lines = <<>>
  /\ pos \in {1}
  /\ ctx = NewContext
  /\ result = NoResult

\* the call parsePluralRule(pluralRule) for the text of the stream
CallParseWords ==
  /\ pc = "rule"
  /\ pc' = "compiled"
  /\ result' = parsePluralRule(JoinWords(input))
  /\ UNCHANGED <<input, lines, pos, ctx>>

SyntaxNext == CallParseWords \/ CallOperation

SyntaxSpec == SyntaxInit /\ [][SyntaxNext]_vars

(***************************************************************************)
(* parsePluralRuleSample on its own: a sample clause with one range of     *)
(* whole numbers or of numbers with one fraction digit.                    *)
(***************************************************************************)
\* the highest bound of an explored sample range, in units of its last digit
MaxSample == 19

\* the text of a number with at most one fraction digit
RenderDecimal(d) ==
  IF d.scale = 0 THEN RenderNumber(d.num)
  ELSE RenderNumber(d.num \div 10) \o <<".">> \o RenderNumber(d.num % 10)

\* "@integer low~high", "@decimal low~high" for numbers with a fraction digit
RenderSampleRange(r) ==
  (IF r.low.scale = 0 THEN <<"@", "i", "n", "t", "e", "g", "e", "r", " ">>
   ELSE <<"@", "d", "e", "c", "i", "m", "a", "l", " ">>)
  \o RenderDecimal(r.low) \o <<"~">> \o RenderDecimal(r.high)

SampleRanges ==
  {[low |-> Dec(p[1], p[3]), high |-> Dec(p[2], p[3])] :
     p \in {q \in (0..MaxSample) \X (0..MaxSample) \X {0, 1} : q[1] <= q[2]}}

SampleInit ==
  /\ input \in SampleRanges
  /\ pc = "sample"
  /\ lines = <<>>
  /\ pos = 1
  /\ ctx = NewContext
  /\ result = NoResult

\* the call parsePluralRuleSample(sample) for the text of the range
CallParsePluralRuleSample ==
  /\ pc = "sample"
  /\ pc' = "expanded"
  /\ result' = parsePluralRuleSample(RenderSampleRange(input))
  /\ UNCHANGED <<input, lines, pos, ctx>>

SampleNext == CallParsePluralRuleSample

SampleSpec == SampleInit /\ [][SampleNext]_vars

(***************************************************************************)
(* ParseDocument on catalogs with several defects: lines that ParseLine    *)
(* rejects next to lines that break the structure of the catalog.          *)
(***************************************************************************)
\* the number of pieces of a catalog with defects
MaxDefect == 4

DefectFragments ==
  {<<"bad">>, <<"obsBad">>, <<"comment">>, <<"id0">>, <<"idA">>, <<"ctxX">>,
   <<"str">>, PluralLines}

DefectInputs == {Flatten(b) : b \in SeqsUpTo(DefectFragments, MaxDefect)}

DefectInit ==
  /\ input \in DefectInputs
  /\ pc = "scan"
  /\ lines = <<>>
  /\ pos = 1
  /\ ctx = NewContext
  /\ result = NoResult

DefectSpec == DefectInit /\ [][Next]_vars

(***************************************************************************)
(* ParseDocument on catalogs with lines whose content the lexer or the     *)
(* entry parser cannot handle.  None of the catalogs declares plural rules *)
(* in its header.                                                          *)
(***************************************************************************)
\* the number of pieces after the optional header
MaxAbort == 3

AbortFragments ==
  {<<"hash">>, <<"obsEmpty">>, <<"badEsc">>, <<"other">>, <<"comment">>,
   <<"idA">>, <<"ctxX">>, <<"str">>, PluralLines}

AbortInputs ==
  {h \o Flatten(b) : h \in {<<>>, PluralHeader}, b \in SeqsUpTo(AbortFragments, MaxAbort)}

AbortInit ==
  /\ input \in AbortInputs
  /\ pc = "scan"
  /\ lines = <<>>
  /\ pos = 1
  /\ ctx = NewContext
  /\ result = NoResult

AbortSpec == AbortInit /\ [][Next]_vars

(***************************************************************************)
(* ExtractEntryHeader on its own: the references and flags of the comments *)
(* that lead a run of lines.                                               *)
(***************************************************************************)
\* strings.HasPrefix(s, prefix) for a prefix of one character
HasPrefix(s, prefix) == Len(s) > 0 /\ s[1] = prefix

RECURSIVE TrimLeft(_)
TrimLeft(s) ==
  IF s # <<>> /\ Head(s) \in WhiteSpaceChars THEN TrimLeft(Tail(s)) ELSE s

RECURSIVE TrimRight(_)
TrimRight(s) ==
  IF s # <<>> /\ s[Len(s)] \in WhiteSpaceChars
  THEN TrimRight(SubSeq(s, 1, Len(s) - 1)) ELSE s

\* strings.TrimSpace (the explored texts hold no other space than " ")
TrimSpace(s) == TrimRight(TrimLeft(s))

RECURSIVE SplitLoop(_, _, _, _)
SplitLoop(s, sep, current, parts) ==
  IF s = <<>> THEN Append(parts, current)
  ELSE IF Head(s) = sep THEN SplitLoop(Tail(s), sep, <<>>, Append(parts, current))
  ELSE SplitLoop(Tail(s), sep, Append(current, Head(s)), parts)

\* strings.Split(s, sep) for a separator of one character
Split(s, sep) == SplitLoop(s, sep, <<>>, <<>>)

RECURSIVE DeleteEmpty(_)
\* slices.DeleteFunc(flags, func(flag) bool { return len(flag) == 0 })
DeleteEmpty(flags) ==
  IF flags = <<>> THEN <<>>
  ELSE IF Len(Head(flags)) = 0 THEN DeleteEmpty(Tail(flags))
  ELSE <<Head(flags)>> \o DeleteEmpty(Tail(flags))

\* for i, flag := range flags { flags[i] = strings.TrimSpace(flag) }
TrimEach(flags) == [i \in 1..Len(flags) |-> TrimSpace(flags[i])]

RECURSIVE HeaderCommentsLoop(_, _, _)
\* the first loop: the comment texts of the leading comment and whitespace
\* lines, up to the first other or obsolete line
HeaderCommentsLoop(ls, i, headerComments) ==
  IF i > Len(ls) THEN headerComments
  ELSE IF ~ls[i].IsCommentOrWhiteSpace \/ ls[i].IsMarkedObsolete THEN headerComments
  ELSE HeaderCommentsLoop(ls, i + 1,
         IF ls[i].IsComment THEN Append(headerComments, ls[i].Comment.Comment)
         ELSE headerComments)

RECURSIVE ReferencesLoop(_, _, _)
\* the second loop: append the trimmed text after ":" of every such comment
ReferencesLoop(headerComments, i, references) ==
  IF i > Len(headerComments) THEN references
  ELSE ReferencesLoop(headerComments, i + 1,
         IF HasPrefix(headerComments[i], ":")
         THEN Append(references, TrimSpace(Drop(headerComments[i], 1)))
         ELSE references)

RECURSIVE FlagsLoop(_, _, _)
\* the third loop: every comment that starts with "," replaces the flags
FlagsLoop(headerComments, i, flags) ==
  IF i > Len(headerComments) THEN flags
  ELSE FlagsLoop(headerComments, i + 1,
         IF HasPrefix(headerComments[i], ",")
         THEN TrimEach(DeleteEmpty(Split(headerComments[i], ",")))
         ELSE flags)

\* references := make([]string, len(headerComments)): that many empty strings
MakeStrings(n) == [i \in 1..n |-> <<>>]

ExtractEntryHeaderOf(headerComments) ==
  [References |-> ReferencesLoop(headerComments, 1, MakeStrings(Len(headerComments))),
   Flags |-> FlagsLoop(headerComments, 1, <<>>)]

ExtractEntryHeader(ls) == ExtractEntryHeaderOf(HeaderCommentsLoop(ls, 1, <<>>))

\* the number of lines handed to ExtractEntryHeader
MaxHeaderLines == 3

HeaderLineTexts ==
  [
    \* (blank line)
    blank |-> <<>>,
    \* #c
    plain |-> <<"#", "c">>,
    \* #: a
    refA |-> <<"#", ":", " ", "a">>,
    \* #:b
    refB |-> <<"#", ":", "b">>,
    \* #, f,g
    flagsFG |-> <<"#", ",", " ", "f", ",", "g">>,
    \* #,h, ,
    flagsH |-> <<"#", ",", "h", ",", " ", ",">>,
    \* msgid "a"
    idA |-> <<"m", "s", "g", "i", "d", " ", "\"", "a", "\"">>,
    \* #~ msgid "a"
    obsId |-> <<"#", "~", " ", "m", "s", "g", "i", "d", " ", "\"", "a", "\"">>
  ]

HeaderLines == [n \in DOMAIN HeaderLineTexts |-> ParseLine(HeaderLineTexts[n])]

\* the Lines of a run given by the names of its lines
HeaderLinesOf(names) == [i \in 1..Len(names) |-> HeaderLines[names[i]]]

ExtractInit ==
  /\ input \in SeqsUpTo(DOMAIN HeaderLineTexts, MaxHeaderLines)
  /\ pc = "extract"
  /\ lines = <<>>
  /\ pos = 1
  /\ ctx = NewContext
  /\ result = NoResult

\* the call ExtractEntryHeader(lines)
CallExtractEntryHeader ==
  /\ pc = "extract"
  /\ pc' = "extracted"
  /\ lines' = input
  /\ result' = ExtractEntryHeader(HeaderLinesOf(input))
  /\ UNCHANGED <<input, pos, ctx>>

ExtractNext == CallExtractEntryHeader

ExtractSpec == ExtractInit /\ [][ExtractNext]_vars

(***************************************************************************)
(* Properties of ParseEntry.                                               *)
(***************************************************************************)
\* ParseEntry returned an Entry and no error
EntryReturned == pc = "returned" /\ result.err = "" /\ ~result.panic

\* ParseEntry returned the error err
EntryFailedWith(err) == pc = "returned" /\ result.err = err /\ ~result.panic

\* the positions of the msgstr[N] lines of a run
IndexedPositions(run) ==
  {i \in 1..Len(run) : ~LineOf(run[i]).Keyword.IsEmpty /\ LineOf(run[i]).Keyword.IsIndexed}

\* the index of the msgstr[N] line at a position
IndexAt(run, i) == LineOf(run[i]).Keyword.Index

\* the indices of the msgstr[N] lines of a run
IndicesOf(run) == {IndexAt(run, i) : i \in IndexedPositions(run)}

\* two msgstr[N] lines of the run carry the same index
RepeatsIndex(run) ==
  \E i, j \in IndexedPositions(run) : i # j /\ IndexAt(run, i) = IndexAt(run, j)

\* an index below the highest index of the run has no msgstr[N] line
MissesIndex(run) ==
  \E m \in IndicesOf(run) : \E k \in 0..m : k \notin IndicesOf(run)

\* C12: in every Entry ParseEntry returns, the msgstr[N] lines carry pairwise
\* distinct indices that are exactly 0..max, and PluralValues has max+1
\* elements; a run with a repeated index or with a missing index below the
\* highest one is rejected.
C12_PluralIndicesContiguous ==
  /\ EntryReturned =>
       /\ ~RepeatsIndex(lines)
       /\ IndicesOf(lines) = 0..(Cardinality(IndexedPositions(lines)) - 1)
       /\ Len(result.entry.PluralValues) = Cardinality(IndexedPositions(lines))
  /\ (pc = "returned" /\ (RepeatsIndex(lines) \/ MissesIndex(lines)))
       => (result.err # "" /\ ~result.panic /\ result.entry = NoEntry)

\* an Entry is returned for msgstr[N] lines that come out of order
C12_Witness ==
  /\ EntryReturned
  /\ Len(result.entry.PluralValues) >= 2
  /\ \E i, j \in IndexedPositions(lines) : i < j /\ IndexAt(lines, i) > IndexAt(lines, j)

\* the run has a msgid_plural line
HasPluralIdLine(run) ==
  \E i \in 1..Len(run) :
    /\ ~LineOf(run[i]).Keyword.IsEmpty
    /\ ~LineOf(run[i]).Keyword.IsIndexed
    /\ LineOf(run[i]).Keyword.Keyword = KwMsgidPlural

\* a line of the run is itself rejected while the loop of ParseEntry reads it
LineDefect(run) == Stopped(ParseEntryLoop(ParseEntryLocals, run, 1))

\* the run has a msgid_plural line or msgstr[N] lines, but not both
PluralMismatch(run) == HasPluralIdLine(run) # (IndexedPositions(run) # {})

\* C13: a returned Entry has a msgid_plural line exactly if its PluralValues
\* is non-empty; a run with a msgid_plural line and no msgstr[N] line, or with
\* msgstr[N] lines and no msgid_plural line, is never returned as an Entry,
\* and the error is the entry-structure error unless a line of the run is
\* rejected first.
C13_PluralIdIffPluralValues ==
  /\ EntryReturned => (HasPluralIdLine(lines) <=> result.entry.PluralValues # <<>>)
  /\ (pc = "returned" /\ PluralMismatch(lines)) =>
       /\ result.err # "" /\ result.entry = NoEntry
       /\ ~LineDefect(lines) => EntryFailedWith("EntryParseError")

\* msgstr[N] lines with gapless indices and no msgid_plural line are answered
\* with the entry-structure error
C13_Witness ==
  /\ EntryFailedWith("EntryParseError")
  /\ ~HasPluralIdLine(lines)
  /\ IndexedPositions(lines) # {}
  /\ ~RepeatsIndex(lines) /\ ~MissesIndex(lines)

RECURSIVE ContinuedFrom(_, _)
\* the unescaped values of the lines without keyword that follow, up to the
\* next keyword line
ContinuedFrom(run, i) ==
  IF i > Len(run) \/ ~LineOf(run[i]).Keyword.IsEmpty THEN <<>>
  ELSE LineOf(run[i]).Value.Value \o ContinuedFrom(run, i + 1)

\* the unescaped value of the keyword line at a position, with the value
\* lines that continue it
ValueOfLineAt(run, i) == LineOf(run[i]).Value.Value \o ContinuedFrom(run, i + 1)

\* the positions of the msgid_plural lines of a run
PluralIdPositions(run) ==
  {i \in 1..Len(run) :
     /\ ~LineOf(run[i]).Keyword.IsEmpty
     /\ ~LineOf(run[i]).Keyword.IsIndexed
     /\ LineOf(run[i]).Keyword.Keyword = KwMsgidPlural}

\* C14: in a returned plural Entry, PluralValues[i] is the unescaped value of
\* the msgstr[i] line with its continuation lines, for every index i and
\* whatever the order of the msgstr[N] lines, and PluralId is the value of the
\* msgid_plural line.
C14_PluralValuesByIndex ==
  EntryReturned =>
    /\ \A p \in IndexedPositions(lines) :
         result.entry.PluralValues[IndexAt(lines, p) + 1] = ValueOfLineAt(lines, p)
    /\ \A p \in PluralIdPositions(lines) :
         result.entry.PluralId = ValueOfLineAt(lines, p)

\* a returned Entry whose msgstr[N] lines come out of order, one of them
\* continued by a value line
C14_Witness ==
  /\ EntryReturned
  /\ \E i, j \in IndexedPositions(lines) : i < j /\ IndexAt(lines, i) > IndexAt(lines, j)
  /\ \E p \in IndexedPositions(lines) :
       Len(ValueOfLineAt(lines, p)) > Len(LineOf(lines[p]).Value.Value)

\* C15: when ParseDocument returns an error the Document it returns is the
\* empty Document, also when entries were finalized before the failure; when
\* ParseEntry returns an error for the lines of the open entry, the Entry it
\* returns is the empty Entry.
C15_AllOrNothing ==
  /\ (pc = "done" /\ result.err # "") => result.doc = NoDocument
  /\ ParseEntry(ctx.currentEntryLines).err # ""
       => ParseEntry(ctx.currentEntryLines).entry = NoEntry

\* ParseDocument failed on the entry open at the end of input, after it had
\* finalized an entry
C15_Witness ==
  /\ pc = "done" /\ result.err # "" /\ ~result.panic
  /\ pos > Len(lines)
  /\ Len(ctx.Entries) >= 1
  /\ ctx.currentEntryLines # <<>>
  /\ result.err = ParseEntry(ctx.currentEntryLines).err
  /\ result.doc = NoDocument

(***************************************************************************)
(* Properties of parsePluralRule.  The meaning of a rule is read off its   *)
(* parts, for a number without fraction digits: n and i are the number,    *)
(* the other operands are zero.                                            *)
(***************************************************************************)
\* the value the relation compares, for the number n
ComparedValue(r, n) ==
  IF r.mod > 0 THEN (IF r.operand \in {"n", "i"} THEN n ELSE 0) % r.mod
  ELSE (IF r.operand \in {"n", "i"} THEN n ELSE 0)

\* the operator of the relation applied to one number or range of its list
SingleMeaning(r, sg, n) ==
  IF r.eq THEN sg[1] <= ComparedValue(r, n) /\ ComparedValue(r, n) <= sg[2]
  ELSE ~(sg[1] <= ComparedValue(r, n) /\ ComparedValue(r, n) <= sg[2])

\* a relation: some element of its list satisfies the operator
RelationMeaning(r, n) ==
  \E k \in 1..Len(r.singles) : SingleMeaning(r, r.singles[k], n)

\* the relations i..j of the rule are one of its and-chains
IsChain(rule, i, j) ==
  /\ i <= j
  /\ i = 1 \/ rule.connectives[i - 1] = "or"
  /\ j = Len(rule.relations) \/ rule.connectives[j] = "or"
  /\ \A k \in i..(j - 1) : rule.connectives[k] = "and"

\* a rule: the relations of some and-chain all hold
RuleMeaning(rule, n) ==
  \E i, j \in 1..Len(rule.relations) :
    /\ IsChain(rule, i, j)
    /\ \A k \in i..j : RelationMeaning(rule.relations[k], n)

\* the operation was returned and called
Applied == pc = "applied"

\* C18: the predicate of a compiled rule is the OR of its or-separated
\* and-chains, each the AND of its relations, for chains of every explored
\* length; the rule "n = 1 @integer 1" is true for 1 and false for 2.
C18_OrOfAndChains ==
  /\ (pc = "compiled" /\ input \in ChainRules) => result.kind = "operation"
  /\ (Applied /\ Len(input.relations) > 0) => result.value = RuleMeaning(input, pos)
  /\ (Applied /\ input = Rule(<<Relation("n", 0, TRUE, <<<<1, 1>>>>)>>, <<>>, SampleTexts.one))
       => /\ pos = 1 => result.value
          /\ pos = 2 => ~result.value

\* a rule "A or B and C" called on a number for which A holds and C does not
C18_Witness ==
  /\ Applied
  /\ Len(input.relations) = 3
  /\ input.connectives = <<"or", "and">>
  /\ RelationMeaning(input.relations[1], pos)
  /\ ~RelationMeaning(input.relations[3], pos)
  /\ result.value

\* C19: a relation with a list applies its operator to every number and
\* range of the list, each compared with the same operand and modulus, and
\* holds if one of them does: "accessor != a, b" is (accessor != a) or
\* (accessor != b).
C19_ListRelationIsOr ==
  /\ (pc = "compiled" /\ input \in ListRules) => result.kind = "operation"
  /\ (Applied /\ input \in ListRules) =>
       result.value =
         (\E k \in 1..Len(input.relations[1].singles) :
            SingleMeaning(input.relations[1], input.relations[1].singles[k], pos))

\* "n % 3 != 1, 3" holds for a number whose remainder is 1
C19_Witness ==
  /\ Applied
  /\ input \in ListRules
  /\ input.relations[1] = Relation("n", 3, FALSE, <<<<1, 1>>, <<3, 3>>>>)
  /\ pos % 3 = 1
  /\ result.value

\* the samples the sample clause of the rule expands to
ExpandedSamples(rule) == parsePluralRuleSample(rule.sample).samples

RECURSIVE FailingFrom(_, _, _)
\* the samples[i..] for which the rule does not hold, in their order
FailingFrom(rule, samples, i) ==
  IF i > Len(samples) THEN <<>>
  ELSE (IF RuleMeaning(rule, samples[i].num) THEN <<>> ELSE <<samples[i]>>)
       \o FailingFrom(rule, samples, i + 1)

FailingSamples(rule) == FailingFrom(rule, ExpandedSamples(rule), 1)

\* the rule has a relation and a sample clause, and parsePluralRule is over
CompiledWithSamples ==
  pc = "compiled" /\ Len(input.relations) > 0 /\ input.sample # <<>>

\* C17: when parsePluralRule returns the operation of a rule with a relation
\* and a sample clause, the operation is true of every expanded sample; when
\* the rule is false of some sample, parsePluralRule ends with a
\* PluralRuleValidationError that carries the text of the rule and exactly
\* the failing samples, in the order of the expansion.
C17_SamplesValidated ==
  /\ (CompiledWithSamples /\ result.kind = "operation") =>
       \A k \in 1..Len(ExpandedSamples(input)) :
         ApplyOperation(result.rel, ExpandedSamples(input)[k])
  /\ (CompiledWithSamples /\ FailingSamples(input) # <<>>) =>
       /\ result.kind = "panic"
       /\ result.error = [RuleString |-> RenderRule(input),
                          InvalidSamples |-> FailingSamples(input)]

\* a rule that holds of some samples of a range and fails two others
C17_Witness ==
  /\ CompiledWithSamples
  /\ result.kind = "panic"
  /\ Len(result.error.InvalidSamples) >= 2
  /\ Len(result.error.InvalidSamples) < Len(ExpandedSamples(input))
  /\ Len(ExpandedSamples(input)) >= 4

(***************************************************************************)
(* Properties of the plural rules of a header.                             *)
(***************************************************************************)
\* the rule the fields leave for a category: that of the last field whose
\* name is the category in any case of letters, or no rule
HasField(fields, c) == \E i \in 1..Len(fields) : LowerText(fields[i].name) = c

LastRuleOf(fields, c) ==
  fields[CHOOSE i \in 1..Len(fields) :
           /\ LowerText(fields[i].name) = c
           /\ \A j \in (i + 1)..Len(fields) : LowerText(fields[j].name) # c].rule

\* the category has a rule with a condition or a sample clause, and the rule
\* holds of the number
PresentAndTrue(fields, c, n) ==
  /\ HasField(fields, c)
  /\ RenderRule(LastRuleOf(fields, c)) # <<>>
  /\ Len(LastRuleOf(fields, c).relations) > 0 => RuleMeaning(LastRuleOf(fields, c), n)

CategoryTexts ==
  <<<<"z", "e", "r", "o">>, <<"o", "n", "e">>, <<"t", "w", "o">>, <<"f", "e", "w">>, <<"m", "a", "n", "y">>>>

\* C16: Evaluate returns the category of the first rule, in the order zero,
\* one, two, few, many, that is present and true of the number, and other
\* when there is none.
C16_FirstTrueCategory ==
  pc = "evaluated" =>
    /\ \A k \in 1..5 :
         (/\ PresentAndTrue(input, CategoryTexts[k], pos)
          /\ \A j \in 1..(k - 1) : ~PresentAndTrue(input, CategoryTexts[j], pos))
           => result = Categories[k]
    /\ (\A k \in 1..5 : ~PresentAndTrue(input, CategoryTexts[k], pos)) => result = "other"

\* two categories have a rule that holds, and the earlier one is returned
C16_Witness ==
  /\ pc = "evaluated"
  /\ PresentAndTrue(input, CategoryTexts[2], pos)
  /\ PresentAndTrue(input, CategoryTexts[4], pos)
  /\ input[1].name # input[2].name
  /\ LowerText(input[1].name) = CategoryTexts[4]
  /\ result = "one"

(***************************************************************************)
(* Properties of the lines.                                                *)
(***************************************************************************)
\* the line CompleteLine makes of the parts of a parsed line
Recompleted(n) == CompleteLine(LineOf(n).Keyword, LineOf(n).Value, LineOf(n).Comment)

\* C20: for every line ParseLine accepted, CompleteLine of its keyword, value
\* and comment has the text of the line as its RawLine.
C20_LineRoundTrip ==
  \A i \in 1..Len(lines) : Recompleted(lines[i]).RawLine = LineTexts[lines[i]]

(***************************************************************************)
(* Properties of the escape codec.                                         *)
(***************************************************************************)
\* C21: the codec is a two-way inverse: unescaping the raw text of a value
\* gives the value back, also for a value with a backslash, a double quote or
\* a control character, and escaping the unescaped form of a raw text the
\* codec produced gives that raw text back.
C21_CodecInverse ==
  /\ pc = "escaped" => ~result.panic
  /\ pc = "unescaped" => (~result.panic /\ result.Value = input)
  /\ (pc = "unescaped" /\ ~result.panic) =>
       LineValueFromValue(result.Value).Raw = result.Raw

(***************************************************************************)
(* Properties of ParseLine.                                                *)
(***************************************************************************)
\* the whole of line has the shape: optional keyword with optional index,
\* optional quoted value, optional comment, in that order, with blanks between
PermittedInFull(line) ==
  LET kw == MatchKeyword(line)
      ix == MatchIndex(line, kw)
      v  == MatchValue(line, ix.next)
      c1 == SkipWhile(line, v.next, WhiteSpaceChars)
  IN  c1 > Len(line) \/ line[c1] = "#"

\* C22: ParseLine returns a LineParseError for every line that does not have
\* a permitted shape in full (text after the closing quote, a quote that is
\* not closed); it returns a Line only for lines that do.
C22_MalformedLineRejected ==
  (pc = "parsed" /\ ~PermittedInFull(input)) => result.err = "LineParseError"

(***************************************************************************)
(* Properties of repeated calls of ParseDocument.                          *)
(***************************************************************************)
\* a call after the first is running
InLaterCall == pc # "done" /\ result # NoResult

IsContinuingLine ==
  /\ IsContentLine
  /\ ctx.HaveHeader
  /\ lineToInspect.Keyword.Keyword \notin {KwMsgctxt, KwMsgid}

\* C24: once the header is established, a line that is neither comment nor
\* whitespace nor msgid nor msgctxt never starts a new entry: no entry is
\* finalized, and the whole pending block, blank lines included, joins the
\* current entry before the line itself.
C24_OtherLinesContinueEntry ==
  [][IsContinuingLine =>
       /\ pc' = "organize"
       /\ ctx'.Entries = ctx.Entries
       /\ ctx'.FoundEntries = ctx.FoundEntries
       /\ ctx'.currentEntryLines =
            ctx.currentEntryLines \o ctx.currentCommentBlock \o <<lines[pos]>>
       /\ ctx'.currentCommentBlock = <<>>]_vars

\* a continuing line has just joined the entry behind a blank line that was
\* pending
C24_Witness ==
  /\ pc = "organize"
  /\ ctx.HaveHeader
  /\ pos > 2
  /\ lines[pos - 2] = "blank"
  /\ ~Inspected[lines[pos - 1]].IsCommentOrWhiteSpace
  /\ Inspected[lines[pos - 1]].Keyword.Keyword \notin {KwMsgctxt, KwMsgid}
  /\ Len(ctx.currentEntryLines) > 2
  /\ Last(ctx.currentEntryLines) = lines[pos - 1]
  /\ ctx.currentEntryLines[Len(ctx.currentEntryLines) - 1] = "blank"
  /\ ctx.Entries = <<>>

\* the line of this iteration reaches case "msgid" of the switch
IsMsgidCase ==
  /\ IsContentLine
  /\ ~IsHeaderCase
  /\ lineToInspect.Keyword.Keyword = KwMsgid

\* text starts with the text start
StartsWith(text, start) ==
  Len(start) <= Len(text) /\ SubSeq(text, 1, Len(start)) = start

\* the entry e has the context of its msgctxt line at position i and the id
\* of the msgid line that follows it
HasContextAndId(e, i) ==
  \E j \in (i + 1)..Len(e.Lines) :
    /\ LineOf(e.Lines[j]).Keyword.Keyword = KwMsgid
    /\ \A k \in (i + 1)..(j - 1) : LineOf(e.Lines[k]).Keyword.Keyword # KwMsgid
    /\ StartsWith(e.Context, LineOf(e.Lines[i]).Value.Value)
    /\ StartsWith(e.Id, LineOf(e.Lines[j]).Value.Value)

\* every finalized entry with a msgctxt line has its context and the id of
\* the msgid line after it
ContextualEntriesComplete(entries) ==
  \A n \in 1..Len(entries) :
    \A i \in 1..Len(entries[n].Lines) :
      LineOf(entries[n].Lines[i]).Keyword.Keyword = KwMsgctxt =>
        HasContextAndId(entries[n], i)

\* the current entry was finalized with the pending lines before the first
\* blank one, and the new entry holds the rest of the pending block and line
StartedNewEntry(before, after, line) ==
  /\ Len(after.Entries) = Len(before.Entries) + 1
  /\ \E k \in 0..Len(before.currentCommentBlock) :
       /\ Last(after.Entries).Lines =
            before.currentEntryLines \o SubSeq(before.currentCommentBlock, 1, k)
       /\ after.currentEntryLines =
            Drop(before.currentCommentBlock, k) \o <<line>>

\* C25: a msgid line seen while ProcessingContextualEntry is true continues
\* the entry the preceding msgctxt opened: no entry is finalized at that line,
\* the flag is false afterwards and the entry, once finalized, has that
\* context and that id.  A msgid line seen while the flag is false finalizes
\* the current entry (or returns its error) and starts a new one.
C25_MsgidAfterMsgctxt ==
  [][IsMsgidCase =>
       /\ ContextualEntriesComplete(ctx'.Entries)
       /\ ctx.ProcessingContextualEntry =>
            /\ pc' = "organize"
            /\ ctx'.Entries = ctx.Entries
            /\ ctx'.currentEntryLines = Append(ctx.currentEntryLines, lines[pos])
            /\ ~ctx'.ProcessingContextualEntry
       /\ ~ctx.ProcessingContextualEntry =>
            \/ /\ pc' = "done"
               /\ result'.err # "" \/ result'.panic
               /\ ctx' = ctx
            \/ /\ pc' = "organize"
               /\ StartedNewEntry(ctx, ctx', lines[pos])
               /\ ~ctx'.ProcessingContextualEntry]_vars

\* a msgid line ended an entry that has a context and an id while the flag
\* was false
C25_Witness ==
  /\ pc = "organize"
  /\ pos > 1
  /\ Inspected[lines[pos - 1]].Keyword.Keyword = KwMsgid
  /\ ctx.currentEntryLines = <<lines[pos - 1]>>
  /\ ~ctx.ProcessingContextualEntry
  /\ ctx.Entries # <<>>
  /\ Last(ctx.Entries).Context # <<>>
  /\ Last(ctx.Entries).Id # <<>>
  /\ \E i \in 1..(Len(Last(ctx.Entries).Lines) - 1) :
       /\ LineOf(Last(ctx.Entries).Lines[i]).Keyword.Keyword = KwMsgctxt
       /\ LineOf(Last(ctx.Entries).Lines[i + 1]).Keyword.Keyword = KwMsgid

(***************************************************************************)
(* Properties of ParseEntry on runs of keyword lines.                      *)
(***************************************************************************)
\* the positions of the lines of a run with the keyword kw, without index
KeywordPositions(run, kw) ==
  {i \in 1..Len(run) :
     /\ ~LineOf(run[i]).Keyword.IsEmpty
     /\ ~LineOf(run[i]).Keyword.IsIndexed
     /\ LineOf(run[i]).Keyword.Keyword = kw}

RECURSIVE ValuesOfKeyword(_, _, _)
\* the values of the lines of run[i..] with the keyword kw, each with the
\* value lines that continue it, in line order
ValuesOfKeyword(run, kw, i) ==
  IF i > Len(run) THEN <<>>
  ELSE IF i \in KeywordPositions(run, kw)
  THEN ValueOfLineAt(run, i) \o ValuesOfKeyword(run, kw, i + 1)
  ELSE ValuesOfKeyword(run, kw, i + 1)

\* C26: a value line without keyword is appended to the accumulator of the
\* most recently seen keyword, simple or indexed: each of Context, Id,
\* PluralId, Value and PluralValues[i] of a returned Entry is the
\* concatenation, in line order, of the value on its keyword line and of
\* every value line between that line and the next keyword line.
C26_ValueLinesContinueKeyword ==
  EntryReturned =>
    /\ result.entry.Context = ValuesOfKeyword(lines, KwMsgctxt, 1)
    /\ result.entry.Id = ValuesOfKeyword(lines, KwMsgid, 1)
    /\ result.entry.PluralId = ValuesOfKeyword(lines, KwMsgidPlural, 1)
    /\ result.entry.Value = ValuesOfKeyword(lines, KwMsgstr, 1)
    /\ \A p \in IndexedPositions(lines) :
         result.entry.PluralValues[IndexAt(lines, p) + 1] = ValueOfLineAt(lines, p)

\* a returned Entry whose msgid line is continued by a value line
C26_Witness ==
  /\ EntryReturned
  /\ \E p \in KeywordPositions(lines, KwMsgid) :
       /\ p < Len(lines)
       /\ lines[p + 1] = "cont"
       /\ result.entry.Id = LineOf(lines[p]).Value.Value \o LineOf("cont").Value.Value
       /\ LineOf(lines[p]).Value.Value # <<>>

\* a value line without keyword stands before every keyword line of the run
BareValueFirst(run) ==
  \E i \in 1..Len(run) :
    /\ LineOf(run[i]).Keyword.IsEmpty
    /\ ~LineOf(run[i]).Value.IsEmpty
    /\ \A j \in 1..(i - 1) : LineOf(run[j]).Keyword.IsEmpty

\* C27: ParseEntry rejects with an error every run in which a value line
\* without keyword occurs before any keyword line.
C27_BareValueNeedsKeyword ==
  (pc = "returned" /\ BareValueFirst(lines)) =>
    /\ EntryFailedWith("EntryLineParseError")
    /\ result.entry = NoEntry

\* a rejected run that starts with a value line and goes on with the lines of
\* a plural entry
C27_Witness ==
  /\ EntryFailedWith("EntryLineParseError")
  /\ Len(lines) >= 3
  /\ lines[1] = "cont"
  /\ HasPluralIdLine(lines)
  /\ IndicesOf(lines) = {0}

\* the keywords ParseEntry has a builder for
SimpleKeywords == {KwMsgctxt, KwMsgid, KwMsgidPlural, KwMsgstr}

\* one of the simple keywords stands on more than one line of the run
RepeatsKeyword(run) ==
  \E kw \in SimpleKeywords : Cardinality(KeywordPositions(run, kw)) > 1

\* C28: ParseEntry rejects every run in which msgctxt, msgid, msgid_plural or
\* msgstr stands on more than one line, whatever the values, also when the
\* first of the lines has an empty value; in a returned Entry each of them
\* stands on at most one line.
C28_SimpleKeywordOnce ==
  (pc = "returned" /\ ~result.panic /\ RepeatsKeyword(lines)) =>
    (result.err # "" /\ result.entry = NoEntry)

\* the positions of the lines of a run with a keyword without index that is
\* none of the simple keywords
UnsupportedPositions(run) ==
  {i \in 1..Len(run) :
     /\ ~LineOf(run[i]).Keyword.IsEmpty
     /\ ~LineOf(run[i]).Keyword.IsIndexed
     /\ LineOf(run[i]).Keyword.Keyword \notin SimpleKeywords}

\* C29: ParseEntry rejects every run with a keyword without index outside
\* msgctxt, msgid, msgid_plural and msgstr with the error it produces after
\* the loop over the lines, wherever the keyword stands: as the first keyword
\* of the run or after a keyword whose accumulator is not empty.
C29_UnsupportedKeywordRejected ==
  (pc = "returned" /\ UnsupportedPositions(lines) # {}) =>
    /\ EntryFailedWith("EntryParseError")
    /\ result.entry = NoEntry

\* the positions of the lines of a run that carry the obsolete marker
ObsoletePositions(run) == {i \in 1..Len(run) : LineOf(run[i]).IsMarkedObsolete}

\* the run has lines with the obsolete marker and lines without it
MixesObsolete(run) ==
  ObsoletePositions(run) # {} /\ ObsoletePositions(run) # 1..Len(run)

\* the lines of a run that carry no obsolete marker
WithoutObsolete(run) == SelectSeq(run, LAMBDA n : ~LineOf(n).IsMarkedObsolete)

ReducedValue(r, x) == IF r.mod > 0 THEN x % r.mod ELSE x

\* what a relation with the one number or range <<a, b>> says of the value x
\* of its accessor
MembershipMeaning(eq, a, b, x) ==
  IF a = b THEN (IF eq THEN x = a ELSE x # a)
  ELSE (IF eq THEN a <= x /\ x <= b ELSE x < a \/ x > b)

\* C31: a single a..b tests inclusive membership of the accessor value x
\* (after the optional % m): with = it holds exactly when a <= x <= b, with
\* != exactly when x < a or x > b; a single without range tests x = a, resp.
\* x != a.  The rule "n % 10 = 2..4 and n % 100 != 12..14" holds for 22 and
\* not for 14.
C31_RangeIsInclusive ==
  /\ pc = "compiled" => result.kind = "operation"
  /\ (Applied /\ input \in RangeRules) =>
       result.value =
         MembershipMeaning(input.relations[1].eq,
                           input.relations[1].singles[1][1],
                           input.relations[1].singles[1][2],
                           ReducedValue(input.relations[1], pos))
  /\ (Applied /\ input = TensRule) =>
       /\ pos = 22 => result.value
       /\ pos = 14 => ~result.value

\* "n % 10 != 2..4" called on 14: the value 4 is the upper end of the range
C31_Witness ==
  /\ Applied
  /\ input \in RangeRules
  /\ input.relations[1] = Relation("n", 10, FALSE, <<<<2, 4>>>>)
  /\ pos = 14
  /\ ~result.value

(***************************************************************************)
(* Properties of rules without a relation.                                 *)
(***************************************************************************)
\* C32: parsePluralRule returns no operation (nil) for the empty rule text;
\* for a text that is not empty and has no token before @ it returns an
\* operation that is true of every number, without checking the samples, and
\* does not fail.
C32_EmptyAndSampleOnlyRules ==
  /\ (pc = "compiled" /\ RenderRule(input) = <<>>) => result.kind = "nil"
  /\ (pc = "compiled" /\ RenderRule(input) # <<>> /\ input.relations = <<>>) =>
       result.kind = "operation"
  /\ (Applied /\ input.relations = <<>>) => result.value

\* the operation of a rule whose sample clause cannot be read is called
C32_Witness ==
  /\ Applied
  /\ input.relations = <<>>
  /\ parsePluralRuleSample(input.sample).panic
  /\ result.value

(***************************************************************************)
(* Properties of the compilation of token streams.  A stream is a rule if  *)
(* the automaton below, which reads it once from left to right, ends in    *)
(* one of its final states.                                                *)
(***************************************************************************)
\* the class of a word
WordClass(w) ==
  CASE w = <<"n">> -> "operand"
    [] w = <<"%">> -> "mod"
    [] w \in {<<"=">>, <<"!", "=">>} -> "operator"
    [] w = <<"1">> -> "number"
    [] w = <<".", ".">> -> "range"
    [] w = <<",">> -> "comma"
    [] w \in {<<"a", "n", "d">>, <<"o", "r">>} -> "connective"

\* the state after a word of class c is read in state q ("stuck": the word
\* is not expected)
Step(q, c) ==
  CASE q = "relation" /\ c = "operand" -> "operand"
    [] q = "operand" /\ c = "mod" -> "mod"
    [] q = "mod" /\ c = "number" -> "modulus"
    [] q \in {"operand", "modulus"} /\ c = "operator" -> "single"
    [] q = "single" /\ c = "number" -> "number"
    [] q = "number" /\ c = "range" -> "range"
    [] q = "range" /\ c = "number" -> "high"
    [] q \in {"number", "high"} /\ c = "comma" -> "single"
    [] q \in {"number", "high"} /\ c = "connective" -> "relation"
    [] OTHER -> "stuck"

RECURSIVE StateAfter(_, _, _)
StateAfter(ws, i, q) ==
  IF i > Len(ws) THEN q ELSE StateAfter(ws, i + 1, Step(q, WordClass(ws[i])))

\* the stream is a rule: every word was expected and the last relation is
\* complete
IsRule(ws) == StateAfter(ws, 1, "relation") \in {"number", "high"}

\* C33: compilation reads the token stream once from left to right and
\* yields an operation only if every token is consumed: a stream whose next
\* token is not of an expected kind, that ends in the middle of a relation
\* or that has tokens left after the or-chain ends in the panic of the
\* compilation and never in an operation.
C33_MalformedStreamFails ==
  pc = "compiled" =>
    /\ ~IsRule(input) => result.kind = "panic"
    /\ IsRule(input) => result.kind = "operation"

\* the stream is FullRule and one more number: tokens are left over
C33_Witness ==
  /\ pc = "compiled"
  /\ input = Append(FullRule, <<"1">>)
  /\ result.kind = "panic"

(***************************************************************************)
(* Properties of the expansion of sample ranges.                           *)
(***************************************************************************)
\* C34: for a sample low~high, parsePluralRuleSample gives low and then every
\* low + k * increment <= high, k >= 1, where increment is 10^-v for the v
\* fraction digits of high: 4~19 gives 4, 5, ..., 19 and 0.1~0.9 gives 0.1,
\* 0.2, ..., 0.9.
C34_RangeExpansion ==
  pc = "expanded" =>
    /\ ~result.panic
    /\ Len(result.samples) = input.high.num - input.low.num + 1
    /\ \A k \in 1..Len(result.samples) :
         DecEqual(result.samples[k], Dec(input.low.num + k - 1, input.low.scale))

(***************************************************************************)
(* Properties of ParseDocument on catalogs with several defects.           *)
(***************************************************************************)
\* the lines ParseLine rejects
SyntaxDefects ==
  {i \in 1..Len(input) : LineOf(input[i]).err # "" \/ LineOf(input[i]).panic}

\* line i is a string or keyworded line once its obsolete marker is stripped
IsContentAt(i) ==
  /\ Inspected[input[i]].err = "" /\ ~Inspected[input[i]].panic
  /\ ~Inspected[input[i]].IsCommentOrWhiteSpace

\* a msgid line stands before line i: the header checks are over
HeaderBefore(i) == \E j \in 1..(i - 1) : LineOf(input[j]).Keyword.Keyword = KwMsgid

\* the last msgctxt or msgid line before line i is a msgctxt line
ContextOpenBefore(i) ==
  \E j \in 1..(i - 1) :
    /\ IsContentAt(j) /\ Inspected[input[j]].Keyword.Keyword = KwMsgctxt
    /\ \A k \in (j + 1)..(i - 1) :
         ~(IsContentAt(k) /\ Inspected[input[k]].Keyword.Keyword = KwMsgid)

\* the lines that break the structure of the catalog by themselves: an
\* obsolete line that does not parse without its marker, a msgctxt or a msgid
\* with a value where the header is expected, a msgctxt after a msgctxt
StructureDefects ==
  {i \in 1..Len(input) :
     /\ i \notin SyntaxDefects
     /\ \/ Inspected[input[i]].err # "" \/ Inspected[input[i]].panic
        \/ /\ IsContentAt(i) /\ ~HeaderBefore(i)
           /\ \/ LineOf(input[i]).Keyword.Keyword = KwMsgctxt
              \/ /\ LineOf(input[i]).Keyword.Keyword = KwMsgid
                 /\ Len(LineOf(input[i]).Value.Raw) > 0
        \/ /\ IsContentAt(i) /\ HeaderBefore(i)
           /\ Inspected[input[i]].Keyword.Keyword = KwMsgctxt
           /\ ContextOpenBefore(i)}

Lowest(S) == CHOOSE i \in S : \A j \in S : i <= j

RECURSIVE LinesOfEntries(_)
\* Entries[0].Lines, Entries[1].Lines, ... one after the other
LinesOfEntries(entries) ==
  IF entries = <<>> THEN <<>>
  ELSE Head(entries).Lines \o LinesOfEntries(Tail(entries))

C37_ReturnsNormally ==
  pc = "done" => ~result.panic

(***************************************************************************)
(* Properties of the number of entries of a Document.                      *)
(***************************************************************************)
\* the msgid lines of the input, by the keyword of the line as it stands
MsgidLines == {i \in 1..Len(input) : LineOf(input[i]).Keyword.Keyword = KwMsgid}

\* the line that establishes the header, 0 when there is none
HeaderLine == IF MsgidLines = {} THEN 0 ELSE Lowest(MsgidLines)

\* the entry-starting lines after the header: a msgctxt line, or a msgid line
\* with no msgctxt line since the previous msgid line, obsolete lines counted
\* by their keyword without the marker
EntryStartingLines ==
  {i \in (HeaderLine + 1)..Len(input) :
     /\ IsContentAt(i)
     /\ \/ Inspected[input[i]].Keyword.Keyword = KwMsgctxt
        \/ /\ Inspected[input[i]].Keyword.Keyword = KwMsgid
           /\ ~ContextOpenBefore(i)}

\* C38: for every successfully parsed catalog the number of entries is 1 plus
\* the number of entry-starting lines after the header; no entry is finalized
\* from an empty run of lines and none twice.
C38_EntryCount ==
  Succeeded =>
    /\ Len(result.doc.Entries) = 1 + Cardinality(EntryStartingLines)
    /\ \A k \in 1..Len(result.doc.Entries) : result.doc.Entries[k].Lines # <<>>
    /\ Len(LinesOfEntries(result.doc.Entries)) = Len(input)

C38_Witness ==
  /\ Succeeded
  /\ Cardinality(EntryStartingLines) = 2
  /\ \E i \in EntryStartingLines : Inspected[input[i]].Keyword.Keyword = KwMsgctxt
  /\ \E i \in EntryStartingLines : Inspected[input[i]].Keyword.Keyword = KwMsgid
  /\ \E i \in (HeaderLine + 1)..Len(input) :
       /\ i \notin EntryStartingLines
       /\ Inspected[input[i]].Keyword.Keyword = KwMsgid

(***************************************************************************)
(* Properties of ExtractEntryHeader.                                       *)
(***************************************************************************)
\* the lines of the run that are not comment or whitespace lines, or are
\* marked obsolete
HeaderStops ==
  {i \in 1..Len(input) :
     \/ ~HeaderLines[input[i]].IsCommentOrWhiteSpace
     \/ HeaderLines[input[i]].IsMarkedObsolete}

\* the leading run of comment and whitespace lines
LeadingRun ==
  IF HeaderStops = {} THEN input ELSE SubSeq(input, 1, Lowest(HeaderStops) - 1)

\* the texts of the comments of the leading run, in order
LeadingComments ==
  LET comments == SelectSeq(LeadingRun, LAMBDA n : HeaderLines[n].IsComment)
  IN  [i \in 1..Len(comments) |-> HeaderLines[comments[i]].Comment.Comment]

\* the trimmed texts of the leading comments that start with ":"
ReferencesOfLeading ==
  LET refs == SelectSeq(LeadingComments, LAMBDA c : HasPrefix(c, ":"))
  IN  [i \in 1..Len(refs) |-> TrimSpace(Drop(refs[i], 1))]

\* the trimmed non-empty items of a comment, split at its commas
ItemsOf(c) == SelectSeq(TrimEach(Split(c, ",")), LAMBDA f : f # <<>>)

\* C39: ExtractEntryHeader reads only the leading run of comment and
\* whitespace lines, up to the first keyword or value line or obsolete line;
\* References are exactly the trimmed texts of the leading comments that start
\* with ":", in order and with no other elements; Flags are the trimmed
\* non-empty comma-separated items of a leading comment that starts with ",".
C39_ReferencesAndFlags ==
  pc = "extracted" =>
    /\ result.References = ReferencesOfLeading
    /\ LET flagged == SelectSeq(LeadingComments, LAMBDA c : HasPrefix(c, ","))
       IN  IF flagged = <<>> THEN result.Flags = <<>>
           ELSE \E i \in 1..Len(flagged) : result.Flags = ItemsOf(flagged[i])

====
